---- MODULE Spec2Model ----
(***************************************************************************)
(* ASAN-friendly allocators of the small library: the wrapper (layout      *)
(* primitive) of util.h, the mempool of mempool_asan.c and the region of   *)
(* region_asan.c.  Addresses are natural numbers, memory is modelled where *)
(* the code reads what it wrote (header words, magic gap, payload bytes),  *)
(* ASAN shadow memory is one value per 8-byte granule.                     *)
(***************************************************************************)
EXTENDS Integers, Naturals, Sequences, FiniteSets, TLC

(***************************************************************************)
(* Bounds of the model.                                                    *)
(***************************************************************************)
\* alignments are 2^0 .. 2^MaxAlignLog
MaxAlignLog == 3
\* payload sizes of the wrapper test are 0 .. MaxPayload
MaxPayload == 2
\* header sizes are sizeof(struct small_header) * (1 .. MaxHdrWords)
MaxHdrWords == 2
\* malloc() returns MallocAlignment * (1 .. MaxBaseIdx) in the wrapper test
MaxBaseIdx == 2
\* number of writes a caller makes below the payload of one block
MaxCorrupt == 1
\* malloc() has MaxSlots places to put a block of a mempool or a region
MaxSlots == 3
\* mempool object sizes are 1 .. MaxObjSize
MaxObjSize == 4
\* calls of mempool_alloc in one run
MaxAllocs == 4
\* stand-in for small_getpagesize()
PageSize == 2
\* sizes asked of the region are 0 .. MaxRSize
MaxRSize == 2
\* records in the list of a region
MaxRecords == 2
\* records in the list of an lsregion
MaxLsRecords == 3
\* ids of the allocations of an lsregion are 1 .. MaxId
MaxId == 2
\* IOV_MAX of the platform, and the vectors of geometric capacity plus one
SMALL_OBUF_IOV_MAX == 4
SMALL_OBUF_IOV_GEOMETRIC_SIZE == 3
\* bytes of the quota of a small_alloc, and the largest size given to smalloc
MaxQuota == 3
MaxSSize == 2
\* the width of int and of uint32_t, scaled down; size_t has the width of
\* SIZE_MOD
INT_BITS == 15
\* the largest start_capacity given to obuf_create where its loop is followed
MaxStart == 2

(***************************************************************************)
(* Program constants.                                                      *)
(***************************************************************************)
SMALL_HEADER_ALIGNMENT == 8
SMALL_POISON_ALIGNMENT == 8
\* sizeof(struct small_header): one size_t
SizeofSmallHeader == 8
\* bytes of small_magic = 0x9cb69dbf535347d8 in memory order (little endian)
small_magic == <<216, 71, 83, 83, 191, 157, 182, 156>>
\* malloc() returns memory aligned for any type; the wrapper relies on the
\* block being aligned as its header is
MallocAlignment == SMALL_HEADER_ALIGNMENT

\* sizeof(struct mempool_object): one struct rlist, two pointers
SizeofMempoolObject == 16
MEMPOOL_ASAN_MAX_ALIGNMENT == 4096
\* sizeof(struct region_allocation): struct small_header, size, used,
\* alignment and a struct rlist
SizeofRegionAllocation == 48
\* sizeof(struct lsregion_allocation): struct small_header, size,
\* alignment, id and a struct rlist
SizeofLsregionAllocation == 48
\* size_t arithmetic wraps; the model keeps 16 bits of it
SIZE_MOD == 2 ^ 16
\* struct obuf_allocation is a struct small_header
SizeofObufAllocation == 8
SMALL_OBUF_ALIGNMENT == 1
SMALL_OBUF_IOV_CHECKED_SIZE ==
    SMALL_OBUF_IOV_MAX + 1 - SMALL_OBUF_IOV_GEOMETRIC_SIZE

\* sizeof(struct small_object): struct small_header, size and a struct rlist
SizeofSmallObject == 32
SMALL_ASAN_ALIGNMENT == 1

NULL == 0

VARIABLES
    \* small_on_assert_failure != NULL
    hook,
    \* abort() was called: the process is gone
    aborted,
    \* expressions of the small_assert()s that failed in the last operation
    msgs,
    \* last operation executed
    last,
    \* ---- wrapper test (test_wrapper_run) ----
    \* struct small_wrapper w of the block under test, NoWrapper if none
    w,
    \* arguments the block was allocated with
    wargs,
    \* position of the block in its life: "none", "allocated" (by
    \* small_wrapper_alloc), "live" (after small_wrapper_poison), "opened"
    \* (header unpoisoned by small_wrapper_from_payload)
    wphase,
    \* ASAN shadow memory: addressable leading bytes of every granule
    shadow,
    \* header->alloc_offset as stored in the block
    alloc_offset,
    \* bytes stored in [magic_begin, payload), by address
    gap,
    \* result of the last small_wrapper_from_header / small_wrapper_from_payload
    wh,
    wp,
    \* writes made below the payload so far
    ncorrupt,
    \* ---- heap ----
    \* live malloc() blocks: base address -> [header, payload]
    blocks,
    \* free() was given an address that is not the base of a live block
    ub,
    \* ---- mempool ----
    \* struct mempool: objsize, objcount, alignment; state "none", "created",
    \* "destroyed"
    pool,
    \* pool->objects: the headers linked in the list, first to last
    objects,
    \* the first word of every live header, by header address
    hdr0,
    \* payload pointers the caller got from mempool_alloc and has not freed
    user,
    \* calls of mempool_alloc and of mempool_free so far
    nalloc,
    nfree,
    \* ---- region ----
    \* struct region: used, reserved
    region,
    \* region->allocations: the records linked in the list, most recent first;
    \* hdr is the address of the header, data the bytes consumed in the payload
    allocations,
    \* region_used() as the caller recorded it, with the list it was taken on
    svp,
    \* region->on_alloc_cb and region->on_truncate_cb are set
    region_cbs,
    \* the calls of the callbacks made by the last operation on the region
    cb_calls,
    \* ---- lsregion ----
    \* struct lsregion: used
    lsregion,
    \* lsregion->allocations: the records linked in the list, oldest first
    lsallocs,
    \* ---- obuf ----
    \* struct obuf: start_capacity, pos, used, reserved; state "none",
    \* "created", "destroyed"
    obuf,
    \* buf->iov: the vectors, iov[i + 1] being buf->iov[i]
    iov,
    \* buf->capacity, capacity[i + 1] being buf->capacity[i]
    capacity,
    \* struct obuf_svp taken by obuf_create_svp: pos, iov_len, used
    osvp,
    \* ---- small ----
    \* struct small_alloc: used, objcount; state "none", "created"
    small,
    \* alloc->objects: the objects linked in the list, most recent first
    sobjects,
    \* struct quota of the slab cache: total and leased bytes
    quota,
    \* a second struct small_alloc created on the same slab cache
    alloc2,
    \* the objects linked in the list of the second small_alloc
    objects2,
    \* ---- the loop of obuf_prepare_buf ----
    \* a call in the branch that takes a geometric vector: its position
    \* ("idle", "test" at the condition of the loop, "shift" in its body,
    \* "done" after it), buf->start_capacity, gpos, size and the local
    \* capacity
    grow

wvars == <<w, wargs, wphase, shadow, alloc_offset, gap, wh, wp, ncorrupt>>
cvars == <<hook, aborted, msgs, last>>
hvars == <<blocks, ub>>
mvars == <<pool, objects, hdr0, user, nalloc, nfree>>
rvars == <<region, allocations, svp, region_cbs, cb_calls>>
lvars == <<lsregion, lsallocs>>
ovars == <<obuf, iov, capacity, osvp>>
svars == <<small, sobjects, quota>>
pvars == <<alloc2, objects2>>
gvars == <<grow>>
\* the allocators that came after the region
xvars == <<lvars, ovars, svars, pvars, gvars>>
\* the pool apart from the first words of the headers
rmvars == <<pool, objects, user, nalloc, nfree>>
vars == <<hook, aborted, msgs, last,
          w, wargs, wphase, shadow, alloc_offset, gap, wh, wp, ncorrupt,
          blocks, ub, pool, objects, hdr0, user, nalloc, nfree,
          region, allocations, svp, region_cbs, cb_calls,
          lsregion, lsallocs, obuf, iov, capacity, osvp,
          small, sobjects, quota, alloc2, objects2, grow>>

(***************************************************************************)
(* util.h: arithmetic helpers.                                             *)
(***************************************************************************)
Pow2(n) == 2 ^ n

Alignments == {Pow2(j) : j \in 0..MaxAlignLog}
HeaderSizes == {SizeofSmallHeader * k : k \in 1..MaxHdrWords}
PayloadSizes == 0..MaxPayload
MallocBases == {MallocAlignment * k : k \in 1..MaxBaseIdx}

\* value & ~(alignment - 1), alignment a power of two
small_align_down(value, alignment) == value - (value % alignment)

\* small_wrapper_header without the step down to the header alignment
small_wrapper_header_unaligned(payload, header_size) == payload - header_size

small_wrapper_header(payload, header_size) ==
    small_align_down(payload - header_size, SMALL_HEADER_ALIGNMENT)

small_wrapper_size(header_size, payload_size, alignment) ==
    header_size + 2 * alignment - 1 + payload_size

\* small_wrapper_payload without the step back from a 2 * alignment boundary
small_wrapper_payload_aligned(ptr, header_size, payload_size, alignment) ==
    small_align_down(ptr + small_wrapper_size(header_size, payload_size,
                                              alignment) - payload_size,
                     alignment)

\* the payload pointer before small_assert(payload >= ptr)
small_wrapper_payload(ptr, header_size, payload_size, alignment) ==
    LET wrapper_size == small_wrapper_size(header_size, payload_size, alignment)
        p0 == ptr + wrapper_size - payload_size
        p1 == small_align_down(p0, alignment)
    IN  IF p1 % (2 * alignment) = 0 THEN p1 - alignment ELSE p1

magic_begin_of(payload) == small_align_down(payload, SMALL_POISON_ALIGNMENT)

(***************************************************************************)
(* ASAN shadow memory.  shadow[g] is the number of addressable leading     *)
(* bytes of granule g: 8 all addressable, 0 none, k the first k.           *)
(***************************************************************************)
MaxAddr ==
    MallocAlignment * MaxBaseIdx
    + small_wrapper_size(SizeofSmallHeader * MaxHdrWords, MaxPayload,
                         Pow2(MaxAlignLog))
    + SMALL_POISON_ALIGNMENT
Granules == 0..(MaxAddr \div SMALL_POISON_ALIGNMENT)
Addrs == 0..(MaxAddr + SMALL_POISON_ALIGNMENT - 1)

Min(a, b) == IF a < b THEN a ELSE b
Max(a, b) == IF a > b THEN a ELSE b

gran(a) == a \div SMALL_POISON_ALIGNMENT
goff(a) == a % SMALL_POISON_ALIGNMENT

asan_address_is_poisoned(sh, a) == goff(a) >= sh[gran(a)]

\* malloc(size) at ptr: the block is addressable, what surrounds it is not
asan_malloc(sh, ptr, size) ==
    [g \in Granules |->
        LET lo == g * SMALL_POISON_ALIGNMENT
        IN  IF lo >= ptr /\ lo + SMALL_POISON_ALIGNMENT <= ptr + size
            THEN SMALL_POISON_ALIGNMENT
            ELSE IF lo >= ptr /\ lo < ptr + size THEN ptr + size - lo
            ELSE sh[g]]

\* free(ptr) of a block of size bytes: the whole block is poisoned
asan_free(sh, ptr, size) ==
    [g \in Granules |->
        LET lo == g * SMALL_POISON_ALIGNMENT
        IN  IF lo + SMALL_POISON_ALIGNMENT > ptr /\ lo < ptr + size
            THEN 0 ELSE sh[g]]

\* ASAN_POISON_MEMORY_REGION(addr, size)
ASAN_POISON_MEMORY_REGION(sh, addr, size) ==
    LET beg == addr
        end == addr + size
        bc == gran(beg)
        ec == gran(end)
        bo == goff(beg)
        eo == goff(end)
    IN  IF size = 0 THEN sh
        ELSE IF bc = ec
        THEN IF sh[bc] \in 1..(SMALL_POISON_ALIGNMENT - 1) /\ sh[bc] <= eo
             THEN [sh EXCEPT ![bc] = IF bo > 0 THEN Min(sh[bc], bo) ELSE 0]
             ELSE sh
        ELSE [g \in Granules |->
                IF g = bc /\ bo > 0 THEN Min(sh[g], bo)
                ELSE IF g >= bc /\ g < ec THEN 0
                ELSE IF g = ec /\ sh[g] \in 1..(SMALL_POISON_ALIGNMENT - 1)
                        /\ sh[g] <= eo
                THEN 0
                ELSE sh[g]]

\* ASAN_UNPOISON_MEMORY_REGION(addr, size)
ASAN_UNPOISON_MEMORY_REGION(sh, addr, size) ==
    LET beg == addr
        end == addr + size
        bc == gran(beg)
        ec == gran(end)
        eo == goff(end)
    IN  IF size = 0 THEN sh
        ELSE IF bc = ec
        THEN IF sh[bc] # SMALL_POISON_ALIGNMENT
             THEN [sh EXCEPT ![bc] = Max(sh[bc], eo)]
             ELSE sh
        ELSE [g \in Granules |->
                IF g >= bc /\ g < ec THEN SMALL_POISON_ALIGNMENT
                ELSE IF g = ec /\ eo > 0 /\ sh[g] # SMALL_POISON_ALIGNMENT
                THEN Max(sh[g], eo)
                ELSE sh[g]]

(***************************************************************************)
(* small_assert: the expressions that failed, in order.  With no callback  *)
(* set the first failure aborts the process.                               *)
(***************************************************************************)
\* a failed small_assert reporting the condition twice
CheckTwice(cond, expr) == IF cond THEN <<>> ELSE <<expr, expr>>

Check(cond, expr) == IF cond THEN <<>> ELSE <<expr>>

MAGIC_CHECK == "wrapper magic check"
ASAN_REPORT == "AddressSanitizer"

NoWrapper == [ptr |-> NULL, header |-> NULL, payload |-> NULL]
NoArgs == [payload_size |-> 0, alignment |-> 0, header_size |-> 0]
NoShadow == [g \in Granules |-> 0]
NoGap == [a \in {} |-> 0]
NoBlocks == [b \in {} |-> NoWrapper]
NoWords == [h \in {} |-> 0]
NoSvp == [set |-> FALSE, used |-> 0, list |-> <<>>]
NoOsvp == [set |-> FALSE, pos |-> 0, iov_len |-> 0, used |-> 0]
NoObuf == [state |-> "none", start_capacity |-> 0, pos |-> 0, used |-> 0,
           reserved |-> 0]
NoSmall == [state |-> "none", used |-> 0, objcount |-> 0]
NoPool == [state |-> "none", objsize |-> 0, objcount |-> 0, alignment |-> 0]
Op(name) == [op |-> name]

\* values a caller stores below the payload: 83 is small_magic[3] and [4]
StoreVals == {0, 83}

\* header->alloc_offset = (char *)wrapper->header - wrapper->ptr
header_alloc_offset(header, ptr) == header - ptr

\* wrapper_ptr with the offset applied in the wrong direction
wrapper_ptr_forward(header, offset) == header + offset

\* wrapper->ptr = (char *)header - wrapper->header->alloc_offset
wrapper_ptr(header, offset) == header - offset

\* wrapper_alloc_poison starting one byte late
wrapper_alloc_poison_late(sh, wr, payload_size, wrapper_size) ==
    LET begin == wr.payload + payload_size + 1
        end == wr.ptr + wrapper_size
    IN  IF begin >= end THEN sh
        ELSE ASAN_POISON_MEMORY_REGION(sh, begin, end - begin)

\* the poison of small_wrapper_alloc: [payload + payload_size, ptr + wrapper_size)
wrapper_alloc_poison(sh, wr, payload_size, wrapper_size) ==
    LET begin == wr.payload + payload_size
        end == wr.ptr + wrapper_size
    IN  ASAN_POISON_MEMORY_REGION(sh, begin, end - begin)

\* wrapper_poison starting at the header instead of the block
wrapper_poison_from_header(sh, wr) ==
    LET magic_begin == magic_begin_of(wr.payload)
    IN  ASAN_POISON_MEMORY_REGION(sh, wr.header, magic_begin - wr.header)

\* the poison of small_wrapper_poison: [ptr, magic_begin)
wrapper_poison(sh, wr) ==
    LET magic_begin == magic_begin_of(wr.payload)
    IN  ASAN_POISON_MEMORY_REGION(sh, wr.ptr, magic_begin - wr.ptr)

\* memcpy(magic_begin, &small_magic, wrapper->payload - magic_begin)
wrapper_magic(payload) ==
    LET magic_begin == magic_begin_of(payload)
    IN  [a \in magic_begin..(payload - 1) |-> small_magic[a - magic_begin + 1]]

\* wrapper_magic_check comparing one byte less
wrapper_magic_check_short(g, payload) ==
    LET magic_begin == magic_begin_of(payload)
    IN  \A a \in magic_begin..(payload - 2) :
            g[a] = small_magic[a - magic_begin + 1]

\* memcmp(magic_begin, &small_magic, payload - magic_begin) == 0
wrapper_magic_check(g, payload) ==
    LET magic_begin == magic_begin_of(payload)
    IN  \A a \in magic_begin..(payload - 1) :
            g[a] = small_magic[a - magic_begin + 1]

(***************************************************************************)
(* The wrapper, driven as test_wrapper_run drives it: one block at a time  *)
(* is allocated, poisoned, looked up from its header and from its payload, *)
(* written below its payload by the caller, and freed.                     *)
(***************************************************************************)
\* no block on the heap
HeapIdle ==
    /\ blocks = NoBlocks
    /\ ub = FALSE

\* no mempool
MempoolIdle ==
    /\ pool = NoPool
    /\ objects = <<>>
    /\ hdr0 = NoWords
    /\ user = {}
    /\ nalloc = 0
    /\ nfree = 0

\* no region in use
RegionIdle ==
    /\ region = [used |-> 0, reserved |-> 0]
    /\ allocations = <<>>
    /\ svp = NoSvp
    /\ region_cbs = FALSE
    /\ cb_calls = <<>>

\* an lsregion after lsregion_create
LsregionIdle ==
    /\ lsregion = [used |-> 0]
    /\ lsallocs = <<>>

\* no obuf
ObufIdle ==
    /\ obuf = NoObuf
    /\ iov = <<>>
    /\ capacity = <<>>
    /\ osvp = NoOsvp

\* no small_alloc
SmallIdle ==
    /\ small = NoSmall
    /\ sobjects = <<>>
    /\ quota = [total |-> 0, leased |-> 0]
    /\ alloc2 = NoSmall
    /\ objects2 = <<>>

\* no call of obuf_prepare_buf under way
NoGrow == [pc |-> "idle", start_capacity |-> 0, gpos |-> -1, size |-> 0,
           capacity |-> 0]

\* none of the allocators that came after the region
ExtraIdle ==
    /\ LsregionIdle
    /\ ObufIdle
    /\ SmallIdle
    /\ grow = NoGrow

\* no block under test
WrapperIdle ==
    /\ w = NoWrapper
    /\ wargs = NoArgs
    /\ wphase = "none"
    /\ shadow = NoShadow
    /\ alloc_offset = 0
    /\ gap = NoGap
    /\ wh = NoWrapper
    /\ wp = NoWrapper
    /\ ncorrupt = 0

InitCommon ==
    /\ hook = FALSE
    /\ aborted = FALSE
    /\ msgs = <<>>
    /\ last = Op("init")

InitWrapper ==
    /\ InitCommon
    /\ ExtraIdle
    /\ WrapperIdle
    /\ HeapIdle
    /\ MempoolIdle
    /\ RegionIdle

\* the test sets and clears small_on_assert_failure
SetHook ==
    /\ ~aborted
    /\ hook' = ~hook
    /\ msgs' = <<>>
    /\ last' = Op("set_hook")
    /\ UNCHANGED aborted

\* small_wrapper_alloc(&w, payload_size, alignment, header_size), malloc()
\* returning base
WAlloc(payload_size, alignment, header_size, base) ==
    LET wrapper_size == small_wrapper_size(header_size, payload_size, alignment)
        payload == small_wrapper_payload(base, header_size, payload_size,
                                         alignment)
        header == small_wrapper_header(payload, header_size)
        wr == [ptr |-> base, header |-> header, payload |-> payload]
        failed == Check(payload >= base, "payload >= ptr")
                  \o Check(header >= base, "(char *)wrapper->header >= wrapper->ptr")
        sh == asan_malloc(NoShadow, base, wrapper_size)
    IN  /\ ~aborted
        /\ wphase = "none"
        /\ last' = Op("alloc")
        /\ wargs' = [payload_size |-> payload_size, alignment |-> alignment,
                     header_size |-> header_size]
        /\ wh' = NoWrapper
        /\ wp' = NoWrapper
        /\ ncorrupt' = 0
        /\ UNCHANGED hook
        /\ IF failed # <<>> /\ ~hook
           THEN /\ aborted' = TRUE
                /\ msgs' = <<Head(failed)>>
                /\ w' = [NoWrapper EXCEPT !.ptr = base]
                /\ wphase' = "none"
                /\ shadow' = sh
                /\ gap' = NoGap
                /\ alloc_offset' = 0
           ELSE /\ aborted' = FALSE
                /\ msgs' = failed
                /\ w' = wr
                /\ wphase' = "allocated"
                /\ alloc_offset' = header_alloc_offset(header, base)
                /\ shadow' = wrapper_alloc_poison(sh, wr, payload_size,
                                                  wrapper_size)
                \* what malloc() left in the gap is not read before
                \* small_wrapper_poison writes it
                /\ gap' = NoGap

\* small_wrapper_poison(&w)
WPoison ==
    /\ ~aborted
    /\ wphase = "allocated"
    /\ shadow' = wrapper_poison(shadow, w)
    /\ gap' = wrapper_magic(w.payload)
    /\ wphase' = "live"
    /\ msgs' = <<>>
    /\ last' = Op("poison")
    /\ UNCHANGED <<hook, aborted, w, wargs, alloc_offset, wh, wp, ncorrupt>>

\* small_wrapper_from_header(&wh, w.header, payload_size, alignment, header_size)
WFromHeader ==
    LET ptr == wrapper_ptr(w.header, alloc_offset)
        payload == small_wrapper_payload(ptr, wargs.header_size,
                                         wargs.payload_size, wargs.alignment)
        failed == Check(payload >= ptr, "payload >= ptr")
    IN  /\ ~aborted
        /\ wphase \in {"allocated", "live", "opened"}
        /\ last' = Op("from_header")
        /\ UNCHANGED <<hook, w, wargs, wphase, shadow, alloc_offset, gap, wp,
                       ncorrupt>>
        /\ IF failed # <<>> /\ ~hook
           THEN /\ aborted' = TRUE
                /\ msgs' = <<Head(failed)>>
                /\ wh' = [NoWrapper EXCEPT !.header = w.header, !.ptr = ptr]
           ELSE /\ aborted' = FALSE
                /\ msgs' = failed
                /\ wh' = [ptr |-> ptr, header |-> w.header, payload |-> payload]

\* the addresses of the block under test
BlockAddrs ==
    w.ptr..(w.ptr + small_wrapper_size(wargs.header_size, wargs.payload_size,
                                       wargs.alignment) - 1)

\* a store of the caller to address a of the block, outside its payload:
\* ASAN reports a store to a poisoned byte and ends the process
WStore(a, v) ==
    /\ ~aborted
    /\ wphase \in {"live", "opened"}
    /\ ncorrupt < MaxCorrupt
    /\ a \in BlockAddrs
    /\ a \notin w.payload..(w.payload + wargs.payload_size - 1)
    /\ ncorrupt' = ncorrupt + 1
    /\ last' = Op("store")
    /\ UNCHANGED <<hook, w, wargs, wphase, shadow, alloc_offset, wh, wp>>
    /\ IF asan_address_is_poisoned(shadow, a)
       THEN /\ aborted' = TRUE
            /\ msgs' = <<ASAN_REPORT>>
            /\ gap' = gap
       ELSE /\ aborted' = FALSE
            /\ msgs' = <<>>
            /\ gap' = IF a \in DOMAIN gap THEN [gap EXCEPT ![a] = v] ELSE gap

\* small_wrapper_unpoison(payload, header): the shadow after it and the
\* small_assert that failed in it
wrapper_unpoison(sh, payload, header) ==
    ASAN_UNPOISON_MEMORY_REGION(sh, header, payload - header)

\* small_wrapper_from_payload(&wp, w.payload, header_size)
WFromPayload ==
    LET payload == w.payload
        header == small_wrapper_header(payload, wargs.header_size)
        failed == Check(wrapper_magic_check(gap, payload), MAGIC_CHECK)
    IN  /\ ~aborted
        /\ wphase \in {"live", "opened"}
        /\ last' = Op("from_payload")
        /\ shadow' = wrapper_unpoison(shadow, payload, header)
        /\ UNCHANGED <<hook, w, wargs, alloc_offset, gap, wh, ncorrupt>>
        /\ IF failed # <<>> /\ ~hook
           THEN /\ aborted' = TRUE
                /\ msgs' = <<Head(failed)>>
                /\ wp' = [NoWrapper EXCEPT !.payload = payload,
                                           !.header = header]
                /\ wphase' = "opened"
           ELSE /\ aborted' = FALSE
                /\ msgs' = failed
                /\ wp' = [ptr |-> wrapper_ptr(header, alloc_offset),
                          header |-> header, payload |-> payload]
                /\ wphase' = "opened"

\* small_wrapper_free(wr), wr one of w, wh, wp; the test ends with it and its
\* local variables are gone
WFree(wr) ==
    LET failed == Check(wrapper_magic_check(gap, wr.payload), MAGIC_CHECK)
        sh == wrapper_unpoison(shadow, wr.payload, wr.header)
        wrapper_size == small_wrapper_size(wargs.header_size,
                                           wargs.payload_size, wargs.alignment)
    IN  /\ ~aborted
        /\ wphase \in {"live", "opened"}
        /\ wr # NoWrapper
        /\ last' = Op("free")
        /\ UNCHANGED hook
        /\ IF failed # <<>> /\ ~hook
           THEN /\ aborted' = TRUE
                /\ msgs' = <<Head(failed)>>
                /\ shadow' = sh
                /\ wphase' = "opened"
                /\ UNCHANGED <<w, wargs, alloc_offset, gap, wh, wp, ncorrupt>>
           ELSE IF wr.ptr = w.ptr
           THEN /\ aborted' = FALSE
                /\ msgs' = failed
                /\ shadow' = asan_free(sh, w.ptr, wrapper_size)
                /\ wphase' = "none"
                /\ w' = NoWrapper
                /\ wargs' = NoArgs
                /\ alloc_offset' = 0
                /\ gap' = NoGap
                /\ wh' = NoWrapper
                /\ wp' = NoWrapper
                /\ ncorrupt' = 0
           \* free() of an address malloc() did not return
           ELSE /\ aborted' = TRUE
                /\ msgs' = failed \o <<ASAN_REPORT>>
                /\ shadow' = sh
                /\ wphase' = "opened"
                /\ UNCHANGED <<w, wargs, alloc_offset, gap, wh, wp, ncorrupt>>

NextWrapper ==
    \/ SetHook /\ UNCHANGED <<wvars, hvars, mvars, rvars, xvars>>
    \/ \E s \in PayloadSizes, a \in Alignments, h \in HeaderSizes,
          b \in MallocBases : WAlloc(s, a, h, b) /\ UNCHANGED <<hvars, mvars, rvars, xvars>>
    \/ WPoison /\ UNCHANGED <<hvars, mvars, rvars, xvars>>
    \/ WFromHeader /\ UNCHANGED <<hvars, mvars, rvars, xvars>>
    \/ \E a \in BlockAddrs, v \in StoreVals :
          WStore(a, v) /\ UNCHANGED <<hvars, mvars, rvars, xvars>>
    \/ WFromPayload /\ UNCHANGED <<hvars, mvars, rvars, xvars>>
    \/ \E wr \in {w, wh, wp} : WFree(wr) /\ UNCHANGED <<hvars, mvars, rvars, xvars>>

SpecWrapper == InitWrapper /\ [][NextWrapper]_vars

(***************************************************************************)
(* The heap of the allocators: malloc() puts a block in any free slot,     *)
(* free() of the base of a live block releases it.  free() of any other    *)
(* address is undefined: ASAN ends the process, or the call has no effect. *)
(***************************************************************************)
\* addresses of the allocator structures and of the heap, apart as in a
\* process: no difference of two of them is an address of the heap
STRUCT_BASE == 32 * MallocAlignment
HEAP_BASE == 64 * MallocAlignment
SlotSize == 13 * MallocAlignment
MallocSlots == {HEAP_BASE + SlotSize * i : i \in 0..(MaxSlots - 1)}
FreeSlots == MallocSlots \ DOMAIN blocks
\* the lowest free slot, where malloc() puts the blocks of a region
FirstFit == {b \in FreeSlots : \A c \in FreeSlots : b <= c}
UbOutcomes == {"abort", "ignored"}

\* f without the keys in ks
Drop(f, ks) == [k \in DOMAIN f \ ks |-> f[k]]
\* f with key k bound to v
Put(f, k, v) == [x \in DOMAIN f \cup {k} |-> IF x = k THEN v ELSE f[x]]
\* sequence q without its i-th element
RemoveAt(q, i) == SubSeq(q, 1, i - 1) \o SubSeq(q, i + 1, Len(q))
\* the index of x in sequence q
IndexOf(q, x) == CHOOSE i \in 1..Len(q) : q[i] = x

(***************************************************************************)
(* mempool_asan.c.  struct mempool_object is one struct rlist: the link    *)
(* is the first word of the header, where small_wrapper_alloc stored       *)
(* alloc_offset.                                                           *)
(***************************************************************************)
\* &pool->objects
POOL_OBJECTS == STRUCT_BASE

ObjSizes == 1..MaxObjSize

RECURSIVE LowBit(_)
\* 1 << (__builtin_ffs(n) - 1), n > 0
LowBit(n) == IF n % 2 = 1 THEN 1 ELSE 2 * LowBit(n \div 2)

\* pool->alignment = 1 << (__builtin_ffs(objsize) - 1): the int converted to
\* size_t. The shift into the sign bit overflows the int, which is undefined:
\* the builds give INT_MIN, sign-extended, or the bit zero-extended.
shl_alignments(objsize) ==
    IF LowBit(objsize) < 2 ^ (INT_BITS - 1)
    THEN {LowBit(objsize)}
    ELSE {SIZE_MOD - 2 ^ (INT_BITS - 1), 2 ^ (INT_BITS - 1)}

\* pool->alignment left as the shift gave it
mempool_alignment_uncapped(a) == a

\* if (pool->alignment > MEMPOOL_ASAN_MAX_ALIGNMENT)
\*         pool->alignment = MEMPOOL_ASAN_MAX_ALIGNMENT;
mempool_alignment_cap(a) ==
    IF a > MEMPOOL_ASAN_MAX_ALIGNMENT THEN MEMPOOL_ASAN_MAX_ALIGNMENT ELSE a

\* the values mempool_create can leave in pool->alignment
mempool_alignment(objsize) ==
    {mempool_alignment_cap(a) : a \in shl_alignments(objsize)}

mempool_count(p) == p.objcount

\* mempool_used with the sum for the product
mempool_used_sum(p) == p.objsize + p.objcount

mempool_used(p) == p.objsize * p.objcount

\* rlist_add_entry(head, item, link) on the first words: item->link.prev is
\* the head, the link.prev of the former first entry is the item
rlist_add_words(words, objs, head, item) ==
    LET w1 == Put(words, item, head)
    IN  IF objs = <<>> THEN w1 ELSE [w1 EXCEPT ![Head(objs)] = item]

\* rlist_del_entry(item, link) on the first words: the link.prev of the entry
\* after the item is the link.prev of the item
rlist_del_words(words, objs, item) ==
    LET i == IndexOf(objs, item)
    IN  IF i < Len(objs) THEN [words EXCEPT ![objs[i + 1]] = words[item]]
        ELSE words

\* mempool_create(pool, cache, objsize)
MCreate(objsize) ==
    LET failed == Check(objsize > 0, "objsize > 0")
    IN  /\ ~aborted
        /\ pool.state = "none"
        /\ last' = Op("mempool_create")
        /\ UNCHANGED <<hook, blocks, ub, objects, hdr0, user, nalloc, nfree>>
        /\ IF failed # <<>> /\ ~hook
           THEN /\ aborted' = TRUE
                /\ msgs' = <<Head(failed)>>
                /\ pool' = pool
           ELSE /\ aborted' = FALSE
                /\ msgs' = failed
                /\ \E a \in mempool_alignment(objsize) :
                      pool' = [state |-> "created", objsize |-> objsize,
                               objcount |-> 0, alignment |-> a]

\* mempool_alloc(pool), malloc() returning base
MAlloc(base) ==
    LET payload == small_wrapper_payload(base, SizeofMempoolObject,
                                         pool.objsize, pool.alignment)
        header == small_wrapper_header(payload, SizeofMempoolObject)
        wr == [ptr |-> base, header |-> header, payload |-> payload]
        failed == Check(payload >= base, "payload >= ptr")
                  \o Check(header >= base, "(char *)wrapper->header >= wrapper->ptr")
        \* header->alloc_offset, then the link over it
        words == Put(hdr0, header, header_alloc_offset(header, base))
    IN  /\ ~aborted
        /\ pool.state = "created"
        /\ nalloc < MaxAllocs
        /\ base \in FreeSlots
        /\ last' = Op("mempool_alloc")
        /\ UNCHANGED <<hook, ub, nfree>>
        /\ IF failed # <<>> /\ ~hook
           THEN /\ aborted' = TRUE
                /\ msgs' = <<Head(failed)>>
                /\ blocks' = Put(blocks, base, [NoWrapper EXCEPT !.ptr = base])
                /\ UNCHANGED <<pool, objects, hdr0, user, nalloc>>
           ELSE /\ aborted' = FALSE
                /\ msgs' = failed
                /\ blocks' = Put(blocks, base, wr)
                /\ hdr0' = rlist_add_words(words, objects, POOL_OBJECTS, header)
                /\ objects' = <<header>> \o objects
                /\ pool' = [pool EXCEPT !.objcount = @ + 1]
                /\ user' = user \cup {payload}
                /\ nalloc' = nalloc + 1

\* mempool_free(pool, ptr)
MFree(ptr, outcome) ==
    LET header == small_wrapper_header(ptr, SizeofMempoolObject)
        wptr == wrapper_ptr(header, hdr0[header])
        words == rlist_del_words(hdr0, objects, header)
    IN  /\ ~aborted
        /\ pool.state = "created"
        /\ ptr \in user
        /\ last' = Op("mempool_free")
        /\ msgs' = <<>>
        /\ objects' = RemoveAt(objects, IndexOf(objects, header))
        /\ pool' = [pool EXCEPT !.objcount = @ - 1]
        /\ user' = user \ {ptr}
        /\ nfree' = nfree + 1
        /\ UNCHANGED <<hook, nalloc>>
        /\ IF wptr \in DOMAIN blocks
           THEN /\ outcome = "ignored"
                /\ blocks' = Drop(blocks, {wptr})
                /\ hdr0' = Drop(words, {blocks[wptr].header})
                /\ UNCHANGED <<aborted, ub>>
           ELSE /\ ub' = TRUE
                /\ aborted' = (outcome = "abort")
                /\ UNCHANGED blocks
                /\ hdr0' = words

\* the blocks that the loop of mempool_destroy gives to free() for the first
\* n entries of the list, each from its header by small_wrapper_from_header
DestroyPtrs(n) == {wrapper_ptr(objects[i], hdr0[objects[i]]) : i \in 1..n}

\* the first entry of the list whose free() is undefined, 0 if none
RECURSIVE FirstBad(_)
FirstBad(i) ==
    IF i > Len(objects) THEN 0
    ELSE IF wrapper_ptr(objects[i], hdr0[objects[i]]) \notin DOMAIN blocks
            \/ wrapper_ptr(objects[i], hdr0[objects[i]]) \in DestroyPtrs(i - 1)
    THEN i
    ELSE FirstBad(i + 1)

\* mempool_destroy(pool)
MDestroy(outcome) ==
    LET bad == FirstBad(1)
        n == IF bad # 0 /\ outcome = "abort" THEN bad - 1 ELSE Len(objects)
        freed == DestroyPtrs(n) \cap DOMAIN blocks
    IN  /\ ~aborted
        /\ pool.state = "created"
        /\ last' = Op("mempool_destroy")
        /\ msgs' = <<>>
        /\ bad = 0 => outcome = "ignored"
        /\ blocks' = Drop(blocks, freed)
        /\ hdr0' = Drop(hdr0, {blocks[b].header : b \in freed})
        /\ ub' = (ub \/ bad # 0)
        /\ aborted' = (bad # 0 /\ outcome = "abort")
        /\ UNCHANGED <<hook, nalloc, nfree>>
        /\ IF bad # 0 /\ outcome = "abort"
           THEN UNCHANGED <<pool, objects, user>>
           ELSE /\ objects' = <<>>
                /\ pool' = [pool EXCEPT !.state = "destroyed"]
                /\ user' = {}

InitMempool ==
    /\ InitCommon
    /\ ExtraIdle
    /\ WrapperIdle
    /\ HeapIdle
    /\ MempoolIdle
    /\ RegionIdle

NextMempool ==
    \/ \E s \in ObjSizes : MCreate(s) /\ UNCHANGED <<wvars, rvars, xvars>>
    \/ \E b \in MallocSlots : MAlloc(b) /\ UNCHANGED <<wvars, rvars, xvars>>
    \/ \E p \in user, o \in UbOutcomes : MFree(p, o) /\ UNCHANGED <<wvars, rvars, xvars>>
    \/ \E o \in UbOutcomes : MDestroy(o) /\ UNCHANGED <<wvars, rvars, xvars>>

SpecMempool == InitMempool /\ [][NextMempool]_vars

(***************************************************************************)
(* mempool_create over the object sizes of every lowest bit, with one      *)
(* object allocated at a time.                                             *)
(***************************************************************************)
OddParts == {1, 3, 5}

\* object sizes of uint32_t with every position of the lowest bit set
AlignSizes ==
    {m * 2 ^ j : m \in OddParts, j \in 0..(INT_BITS - 1)}
        \cap 1..(2 ^ INT_BITS - 1)

InitMempoolAlign == InitMempool

NextMempoolAlign ==
    \/ \E s \in AlignSizes : MCreate(s) /\ UNCHANGED <<wvars, rvars, xvars>>
    \/ \E b \in MallocSlots :
          objects = <<>> /\ MAlloc(b) /\ UNCHANGED <<wvars, rvars, xvars>>

SpecMempoolAlign == InitMempoolAlign /\ [][NextMempoolAlign]_vars

(***************************************************************************)
(* region_asan.c.  Every record is one heap block; the header is a struct  *)
(* region_allocation, whose first member is the struct small_header.  The  *)
(* byte at logical offset o of the region holds the value o, so that the   *)
(* data of a record tell where its bytes came from.                        *)
(***************************************************************************)
RegionSizes == 0..MaxRSize
RegionAlignments == {1, 2}
\* region_alloc(region, size) is region_aligned_alloc(region, size, 1)
REGION_ALLOC_ALIGNMENT == 1

\* no small_assert failed since the region was created: a caller goes on
\* after a reported failure only to see that it was reported
Sane == ~aborted /\ msgs = <<>> /\ ~ub

\* the bytes a caller stores in size bytes taken at region->used = used
NewBytes(used, size) == [i \in 1..size |-> used + i]

\* the sum of alloc->used over the first n records of list
RECURSIVE UsedSum(_, _)
UsedSum(list, n) == IF n = 0 THEN 0 ELSE list[n].used + UsedSum(list, n - 1)

\* if (region->on_alloc_cb != NULL) region->on_alloc_cb(region, size, cb_arg)
on_alloc_cb(size) ==
    IF region_cbs THEN <<[cb |-> "on_alloc_cb", size |-> size]>> ELSE <<>>

\* on_truncate_cb called with the bytes cut
on_truncate_cb_delta(used) ==
    IF region_cbs
    THEN <<[cb |-> "on_truncate_cb", size |-> (region.used - used) % SIZE_MOD]>>
    ELSE <<>>

\* if (region->on_truncate_cb != NULL)
\*         region->on_truncate_cb(region, used, cb_arg)
on_truncate_cb(used) ==
    IF region_cbs THEN <<[cb |-> "on_truncate_cb", size |-> used]>> ELSE <<>>

\* the record and the block of region_prepare_buf, malloc() returning base
region_prepare_buf(size, alignment, used, base, data) ==
    LET payload == small_wrapper_payload(base, SizeofRegionAllocation,
                                         size, alignment)
        header == small_wrapper_header(payload, SizeofRegionAllocation)
    IN  [failed |-> Check(payload >= base, "payload >= ptr")
                    \o Check(header >= base,
                             "(char *)wrapper->header >= wrapper->ptr"),
         block |-> [ptr |-> base, header |-> header, payload |-> payload],
         alloc |-> [hdr |-> header, size |-> size, used |-> used,
                    alignment |-> alignment, data |-> data]]

\* the payload of a record, by small_wrapper_from_header
region_payload(alloc) ==
    small_wrapper_payload(wrapper_ptr(alloc.hdr, hdr0[alloc.hdr]),
                          SizeofRegionAllocation, alloc.size, alloc.alignment)

\* a reserve that does not look at the pending reservation
reserve_check_none(reserved) == TRUE

\* small_assert(region->reserved == 0); small_assert(buf->reserved == 0);
reserve_check(reserved) == reserved = 0

\* a reservation of just the bytes asked for
reserve_size_exact(size, pagesize) == size

\* if (size < pagesize) size = pagesize;
reserve_size(size, pagesize) == IF size < pagesize THEN pagesize ELSE size

\* region_aligned_reserve(region, size, alignment)
RReserve(size, alignment, base) ==
    LET failed == Check(reserve_check(region.reserved),
                        "region->reserved == 0")
        rsize == reserve_size(size, PageSize)
        buf == region_prepare_buf(rsize, alignment, 0, base, <<>>)
        all == failed \o buf.failed
    IN  /\ Sane
        /\ base \in FirstFit
        /\ Len(allocations) < MaxRecords
        /\ last' = [op |-> "region_aligned_reserve", arg |-> size,
                    ret |-> buf.block.payload]
        /\ UNCHANGED <<hook, ub, svp, region_cbs>>
        /\ cb_calls' = <<>>
        /\ IF all # <<>> /\ ~hook
           THEN /\ aborted' = TRUE
                /\ msgs' = <<Head(all)>>
                /\ blocks' = IF failed # <<>> THEN blocks
                             ELSE Put(blocks, base, [NoWrapper EXCEPT !.ptr = base])
                /\ UNCHANGED <<region, allocations, hdr0>>
           ELSE /\ aborted' = FALSE
                /\ msgs' = all
                /\ blocks' = Put(blocks, base, buf.block)
                /\ hdr0' = Put(hdr0, buf.alloc.hdr,
                               header_alloc_offset(buf.alloc.hdr, base))
                /\ allocations' = <<buf.alloc>> \o allocations
                /\ region' = [region EXCEPT !.reserved = rsize]

\* the alignment check taken for an alignment up to that of the record
alloc_alignment_check_le(alignment, alloc) == alignment <= alloc.alignment

\* small_assert(alignment == alloc->alignment)
alloc_alignment_check(alignment, alloc) == alignment = alloc.alignment

\* region_aligned_alloc(region, size, alignment) on a pending reservation:
\* region_aligned_alloc_reserved
RAllocReserved(size, alignment) ==
    LET alloc == Head(allocations)
        f1 == Check(size <= region.reserved, "size <= region->reserved")
        f2 == Check(alloc_alignment_check(alignment, alloc),
                    "alignment == alloc->alignment")
        all == f1 \o f2
    IN  /\ Sane
        /\ region.reserved # 0
        /\ last' = [op |-> "region_aligned_alloc", arg |-> size,
                    ret |-> region_payload(alloc), alignment |-> alignment]
        /\ UNCHANGED <<hook, ub, svp, region_cbs, blocks, hdr0>>
        /\ IF all # <<>> /\ ~hook
           THEN /\ aborted' = TRUE
                /\ msgs' = <<Head(all)>>
                /\ cb_calls' = <<>>
                /\ UNCHANGED <<region, allocations>>
           ELSE /\ aborted' = FALSE
                /\ msgs' = all
                /\ cb_calls' = on_alloc_cb(size)
                /\ region' = [used |-> region.used + size, reserved |-> 0]
                /\ allocations' =
                       <<[alloc EXCEPT !.used = @ + size,
                                       !.data = @ \o NewBytes(region.used, size)]>>
                       \o Tail(allocations)

\* region->used left as it was by an allocation
region_used_kept(used, size) == used

\* region->used += size; of region_aligned_alloc
region_used_add(used, size) == used + size

\* region_aligned_alloc(region, size, alignment) with no reservation
RAllocNew(size, alignment, base) ==
    LET buf == region_prepare_buf(size, alignment, size, base,
                                  NewBytes(region.used, size))
    IN  /\ Sane
        /\ region.reserved = 0
        /\ base \in FirstFit
        /\ Len(allocations) < MaxRecords
        /\ last' = [op |-> "region_aligned_alloc", arg |-> size,
                    ret |-> buf.block.payload, alignment |-> alignment]
        /\ UNCHANGED <<hook, ub, svp, region_cbs>>
        /\ IF buf.failed # <<>> /\ ~hook
           THEN /\ aborted' = TRUE
                /\ msgs' = <<Head(buf.failed)>>
                /\ blocks' = Put(blocks, base, [NoWrapper EXCEPT !.ptr = base])
                /\ cb_calls' = <<>>
                /\ UNCHANGED <<region, allocations, hdr0>>
           ELSE /\ aborted' = FALSE
                /\ msgs' = buf.failed
                /\ cb_calls' = on_alloc_cb(size)
                /\ blocks' = Put(blocks, base, buf.block)
                /\ hdr0' = Put(hdr0, buf.alloc.hdr,
                               header_alloc_offset(buf.alloc.hdr, base))
                /\ allocations' = <<buf.alloc>> \o allocations
                /\ region' = [region EXCEPT
                                 !.used = region_used_add(@, size)]

\* the caller records region_used(region)
RSavepoint ==
    /\ Sane
    /\ region.reserved = 0
    /\ ~svp.set
    /\ svp' = [set |-> TRUE, used |-> region.used, list |-> allocations]
    /\ last' = [op |-> "region_used", arg |-> 0, ret |-> region.used]
    /\ UNCHANGED <<hook, aborted, msgs, ub, blocks, hdr0, region, allocations,
                   region_cbs>>
    /\ cb_calls' = <<>>

TRUNCATE_CHECK == "alloc->used <= cut_size"

\* the check of a record taken against the size of its block
truncate_check_size(alloc, cut_size) == alloc.used <= alloc.size

\* small_assert(alloc->used <= cut_size)
truncate_check(alloc, cut_size) == alloc.used <= cut_size

\* the end of the scan of region_truncate, never at a record of no usage
truncate_stop_at_zero(alloc, cut_size) == cut_size = 0

\* if (cut_size == 0 && alloc->used != 0) break;
truncate_stop(alloc, cut_size) == cut_size = 0 /\ alloc.used # 0

\* the loop of region_truncate over list with cut_size left: the records that
\* stay, the headers of the records freed, the assertions that failed
RECURSIVE truncate_loop(_, _, _, _)
truncate_loop(list, cut_size, freed, failed) ==
    IF list = <<>> \/ truncate_stop(Head(list), cut_size)
    THEN [rest |-> list, freed |-> freed, failed |-> failed, aborted |-> FALSE]
    ELSE IF ~truncate_check(Head(list), cut_size) /\ ~hook
    THEN [rest |-> list, freed |-> freed,
          failed |-> <<TRUNCATE_CHECK>>, aborted |-> TRUE]
    ELSE truncate_loop(Tail(list),
                       (cut_size - Head(list).used) % SIZE_MOD,
                       freed \cup {Head(list).hdr},
                       failed \o Check(truncate_check(Head(list), cut_size),
                                       TRUNCATE_CHECK))

\* region_truncate(region, used)
RTruncate(used) ==
    LET f1 == Check(used <= region.used, "used <= region->used")
        loop == truncate_loop(allocations, (region.used - used) % SIZE_MOD,
                              {}, f1)
        ptrs == {wrapper_ptr(h, hdr0[h]) : h \in loop.freed}
    IN  /\ Sane
        /\ UNCHANGED <<hook, region_cbs>>
        /\ svp' = NoSvp
        /\ IF f1 # <<>> /\ ~hook
           THEN /\ aborted' = TRUE
                /\ msgs' = f1
                /\ last' = [op |-> "region_truncate", arg |-> used, freed |-> 0,
                            svp |-> NoSvp]
                /\ cb_calls' = <<>>
                /\ UNCHANGED <<ub, blocks, hdr0, region, allocations>>
           ELSE /\ aborted' = loop.aborted
                /\ cb_calls' = IF loop.aborted THEN <<>>
                               ELSE on_truncate_cb(used)
                \* the call, the blocks it freed, the savepoint it cut to
                /\ last' = [op |-> "region_truncate", arg |-> used,
                            freed |-> Cardinality(loop.freed),
                            svp |-> IF svp.set /\ used = svp.used THEN svp
                                    ELSE NoSvp]
                /\ msgs' = loop.failed
                /\ ub' = (ub \/ ~(ptrs \subseteq DOMAIN blocks))
                /\ blocks' = Drop(blocks, ptrs \cap DOMAIN blocks)
                /\ hdr0' = Drop(hdr0, loop.freed)
                /\ allocations' = loop.rest
                /\ region' = IF loop.aborted THEN region
                             ELSE [used |-> used, reserved |-> 0]

\* the bytes that memcpy takes from a record: copy_size bytes at
\* wrapper.payload
join_source(alloc, copy_size) == SubSeq(alloc.data, 1, copy_size)

\* the loop of region_join from the i-th record of list, ret being the
\* bytes of the new block; it ends where the list ends
RECURSIVE join_loop(_, _, _, _)
join_loop(list, i, offset, ret) ==
    IF offset = 0 \/ i > Len(list) THEN ret
    ELSE LET alloc == list[i]
             copy_size == Min(alloc.used, offset)
             src == join_source(alloc, copy_size)
         IN  join_loop(list, i + 1, offset - copy_size,
                       [k \in DOMAIN ret |->
                            IF k > offset - copy_size /\ k <= offset
                            THEN src[k - (offset - copy_size)]
                            ELSE ret[k]])

\* bytes that nobody wrote
Unwritten(size) == [k \in 1..size |-> 0]

\* region_join(region, size), malloc() returning base.  With the hook set
\* the call goes on after a failed assertion: on a pending reservation
\* region_alloc takes the reserved block and the loop copies it onto itself;
\* with size > region->used the loop leaves the list, which is undefined.
RJoin(size, base, outcome) ==
    LET f1 == Check(size <= region.used, "size <= region->used")
        f2 == Check(region.reserved = 0, "region->reserved == 0")
        all == f1 \o f2
        data == join_loop(allocations, 1, size, Unwritten(size))
        buf == region_prepare_buf(size, REGION_ALLOC_ALIGNMENT, size, base, data)
        head == Head(allocations)
        g == Check(size <= region.reserved, "size <= region->reserved")
             \o Check(REGION_ALLOC_ALIGNMENT = head.alignment,
                      "alignment == alloc->alignment")
    IN  /\ Sane
        /\ base \in FirstFit
        /\ Len(allocations) < MaxRecords
        /\ (f1 = <<>> \/ ~hook \/ region.reserved # 0) => outcome = "ignored"
        /\ last' = [op |-> "region_join", arg |-> size,
                    ret |-> IF region.reserved # 0 THEN region_payload(head)
                            ELSE buf.block.payload]
        /\ UNCHANGED <<hook, region_cbs>>
        /\ svp' = NoSvp
        /\ IF all # <<>> /\ ~hook
           THEN /\ aborted' = TRUE
                /\ msgs' = <<Head(all)>>
                /\ cb_calls' = <<>>
                /\ UNCHANGED <<ub, blocks, hdr0, region, allocations>>
           ELSE IF region.reserved # 0
           THEN /\ aborted' = FALSE
                /\ cb_calls' = on_alloc_cb(size)
                /\ msgs' = all \o g
                /\ region' = [used |-> region.used + size, reserved |-> 0]
                /\ allocations' =
                       <<[head EXCEPT !.used = @ + size,
                                      !.data = @ \o Unwritten(size)]>>
                       \o Tail(allocations)
                /\ UNCHANGED <<ub, blocks, hdr0>>
           ELSE /\ aborted' = (outcome = "abort")
                /\ cb_calls' = on_alloc_cb(size)
                /\ msgs' = all \o buf.failed
                /\ ub' = (ub \/ f1 # <<>>)
                /\ blocks' = Put(blocks, base, buf.block)
                /\ hdr0' = Put(hdr0, buf.alloc.hdr,
                               header_alloc_offset(buf.alloc.hdr, base))
                /\ allocations' = <<buf.alloc>> \o allocations
                /\ region' = [region EXCEPT
                                 !.used = region_used_add(@, size)]

\* small_on_assert_failure is set or reset between two calls
RSetHook ==
    /\ Sane
    /\ SetHook

InitRegion ==
    /\ InitCommon
    /\ ExtraIdle
    /\ WrapperIdle
    /\ HeapIdle
    /\ MempoolIdle
    /\ RegionIdle

NextRegion ==
    \/ RSetHook /\ UNCHANGED <<wvars, hvars, mvars, rvars, xvars>>
    \/ \E s \in RegionSizes, a \in RegionAlignments, b \in MallocSlots :
          RReserve(s, a, b) /\ UNCHANGED <<wvars, rmvars, xvars>>
    \/ \E s \in RegionSizes, a \in RegionAlignments :
          RAllocReserved(s, a) /\ UNCHANGED <<wvars, rmvars, xvars>>
    \/ \E s \in RegionSizes, a \in RegionAlignments, b \in MallocSlots :
          RAllocNew(s, a, b) /\ UNCHANGED <<wvars, rmvars, xvars>>
    \/ RSavepoint /\ UNCHANGED <<wvars, rmvars, xvars>>
    \/ \E u \in 0..(region.used + 1) : RTruncate(u) /\ UNCHANGED <<wvars, rmvars, xvars>>
    \/ \E s \in 0..(region.used + 1), b \in MallocSlots, o \in UbOutcomes :
          RJoin(s, b, o) /\ UNCHANGED <<wvars, rmvars, xvars>>

SpecRegion == InitRegion /\ [][NextRegion]_vars

\* a region with the callbacks set, by region_set_callbacks after
\* region_create
InitRegionCb ==
    /\ InitCommon
    /\ ExtraIdle
    /\ WrapperIdle
    /\ HeapIdle
    /\ MempoolIdle
    /\ region = [used |-> 0, reserved |-> 0]
    /\ allocations = <<>>
    /\ svp = NoSvp
    /\ region_cbs = TRUE
    /\ cb_calls = <<>>

SpecRegionCb == InitRegionCb /\ [][NextRegion]_vars

(***************************************************************************)
(* lsregion_asan.c.  Every allocation is one heap block; the header is a   *)
(* struct lsregion_allocation, whose first member is the struct            *)
(* small_header.  New records go to the tail of the list.                  *)
(***************************************************************************)
LsSizes == {0, 1, 3}
LsAlignments == {2}
LsIds == 1..MaxId

\* lsregion_aligned_alloc(lsregion, size, alignment, id), malloc() returning
\* base
LAlloc(size, alignment, id, base) ==
    LET payload == small_wrapper_payload(base, SizeofLsregionAllocation,
                                         size, alignment)
        header == small_wrapper_header(payload, SizeofLsregionAllocation)
        failed == Check(payload >= base, "payload >= ptr")
                  \o Check(header >= base,
                           "(char *)wrapper->header >= wrapper->ptr")
        alloc == [hdr |-> header, size |-> size, alignment |-> alignment,
                  id |-> id]
    IN  /\ Sane
        /\ base \in FirstFit
        /\ Len(lsallocs) < MaxLsRecords
        /\ last' = [op |-> "lsregion_aligned_alloc", arg |-> size, id |-> id,
                    ret |-> payload]
        /\ UNCHANGED <<hook, ub>>
        /\ IF failed # <<>> /\ ~hook
           THEN /\ aborted' = TRUE
                /\ msgs' = <<Head(failed)>>
                /\ blocks' = Put(blocks, base, [NoWrapper EXCEPT !.ptr = base])
                /\ UNCHANGED <<lsregion, lsallocs, hdr0>>
           ELSE /\ aborted' = FALSE
                /\ msgs' = failed
                /\ blocks' = Put(blocks, base,
                                 [ptr |-> base, header |-> header,
                                  payload |-> payload])
                /\ hdr0' = Put(hdr0, header, header_alloc_offset(header, base))
                /\ lsallocs' = Append(lsallocs, alloc)
                /\ lsregion' = [lsregion EXCEPT !.used = @ + size]

\* the end of the scan of lsregion_gc at the first record of the threshold
gc_stop_at_equal(alloc, min_id) == alloc.id >= min_id

\* the scan of lsregion_gc going on past a record above the threshold
gc_stop_never(alloc, min_id) == FALSE

\* if (alloc->id > min_id) break;
gc_stop(alloc, min_id) == alloc.id > min_id

\* the loop of lsregion_gc over list with lsregion->used = used: the records
\* that stay, lsregion->used, the headers freed, the assertions that failed
RECURSIVE gc_loop(_, _, _, _, _)
gc_loop(list, min_id, used, freed, failed) ==
    IF list = <<>> \/ gc_stop(Head(list), min_id)
    THEN [rest |-> list, used |-> used, freed |-> freed, failed |-> failed,
          aborted |-> FALSE]
    ELSE IF used < Head(list).size /\ ~hook
    THEN [rest |-> list, used |-> used, freed |-> freed,
          failed |-> <<"lsregion->used >= alloc->size">>, aborted |-> TRUE]
    ELSE gc_loop(Tail(list), min_id,
                 (used - Head(list).size) % SIZE_MOD,
                 freed \cup {Head(list).hdr},
                 failed \o Check(used >= Head(list).size,
                                 "lsregion->used >= alloc->size"))

\* lsregion_gc(lsregion, min_id)
LGc(min_id) ==
    LET loop == gc_loop(lsallocs, min_id, lsregion.used, {}, <<>>)
        ptrs == {wrapper_ptr(h, hdr0[h]) : h \in loop.freed}
    IN  /\ Sane
        /\ last' = [op |-> "lsregion_gc", arg |-> min_id,
                    freed |-> Cardinality(loop.freed)]
        /\ UNCHANGED hook
        /\ aborted' = loop.aborted
        /\ msgs' = loop.failed
        /\ ub' = (ub \/ ~(ptrs \subseteq DOMAIN blocks))
        /\ blocks' = Drop(blocks, ptrs \cap DOMAIN blocks)
        /\ hdr0' = Drop(hdr0, loop.freed)
        /\ lsallocs' = loop.rest
        /\ lsregion' = [lsregion EXCEPT !.used = loop.used]

\* the other allocators while the lsregion runs
LsOthers == <<wvars, rmvars, rvars, ovars, svars, pvars, gvars>>

InitLsregion ==
    /\ InitCommon
    /\ ExtraIdle
    /\ WrapperIdle
    /\ HeapIdle
    /\ MempoolIdle
    /\ RegionIdle

NextLsregion ==
    \/ \E s \in LsSizes, a \in LsAlignments, i \in LsIds, b \in MallocSlots :
          LAlloc(s, a, i, b) /\ UNCHANGED LsOthers
    \/ \E m \in 0..MaxId : LGc(m) /\ UNCHANGED LsOthers

SpecLsregion == InitLsregion /\ [][NextLsregion]_vars

(***************************************************************************)
(* obuf_asan.c.  The first SMALL_OBUF_IOV_CHECKED_SIZE vectors are blocks  *)
(* of small_wrapper_alloc with a struct obuf_allocation as the header, the *)
(* vectors after them are plain malloc() blocks of growing capacity.       *)
(* small_on_assert_failure stays unset: a failed assertion ends the run.   *)
(***************************************************************************)
ObufSizes == {1, 2}
StartCapacities == {1, 2}
\* the heap as the obuf sees it: room for a block per vector
ObufSlots == {HEAP_BASE + SlotSize * i : i \in 0..(SMALL_OBUF_IOV_MAX - 1)}
\* the lowest free slot, where malloc() puts the blocks of an obuf
ObufFirstFit ==
    {b \in ObufSlots \ DOMAIN blocks :
        \A c \in ObufSlots \ DOMAIN blocks : b <= c}

NoVec == [base |-> NULL, len |-> 0]
\* buf->iov[i] and buf->capacity[i]
Vec(i) == iov[i + 1]
Cap(i) == capacity[i + 1]
\* q with q[i] = v, the store lost when i is not an index of q
SetAt(q, i, v) == [k \in DOMAIN q |-> IF k = i + 1 THEN v ELSE q[k]]

\* capacity <<= 1; on a size_t
capacity_shl(cap) == (2 * cap) % SIZE_MOD

\* while (capacity < size) capacity <<= 1; the capacity the loop ends with
RECURSIVE GrowCapacity(_, _)
GrowCapacity(cap, size) ==
    IF cap < size THEN GrowCapacity(capacity_shl(cap), size) ELSE cap

\* the assertion failing one vector before the end of the array
obuf_pos_check_early(pos) == pos < SMALL_OBUF_IOV_MAX - 1

\* small_assert(buf->pos < SMALL_OBUF_IOV_MAX)
obuf_pos_check(pos) == pos < SMALL_OBUF_IOV_MAX

\* the capacity of every geometric vector starting at start_capacity
first_capacity_flat(start_capacity, gpos) == start_capacity

\* size_t capacity = buf->start_capacity << (gpos + 1);
first_capacity(start_capacity, gpos) ==
    (start_capacity * 2 ^ (gpos + 1)) % SIZE_MOD

\* a checked vector taken again for the next allocation
checked_pos_same(pos, v) == pos

\* if (buf->iov[buf->pos].iov_base != NULL) buf->pos++;
checked_pos(pos, v) == IF v.base # NULL THEN pos + 1 ELSE pos

\* a geometric vector taken for every request
prepare_needs_block_first(size) ==
    IF obuf.pos >= SMALL_OBUF_IOV_CHECKED_SIZE - 1
    THEN obuf.pos - SMALL_OBUF_IOV_CHECKED_SIZE < 0
    ELSE TRUE

\* obuf_prepare_buf takes a block from malloc() for size more bytes
prepare_needs_block(size) ==
    IF obuf.pos >= SMALL_OBUF_IOV_CHECKED_SIZE - 1
    THEN \/ obuf.pos - SMALL_OBUF_IOV_CHECKED_SIZE < 0
         \/ Vec(obuf.pos).len + size
                > Cap(obuf.pos - SMALL_OBUF_IOV_CHECKED_SIZE)
    ELSE TRUE

\* obuf_prepare_buf(buf, size), malloc() returning base: buf->pos, the
\* vectors, the capacities, the pointer returned, the block allocated, the
\* assertions that failed, and whether buf->capacity was written past its end
obuf_prepare_buf(size, base) ==
    IF obuf.pos >= SMALL_OBUF_IOV_CHECKED_SIZE - 1
    THEN LET gpos == obuf.pos - SMALL_OBUF_IOV_CHECKED_SIZE
             cap == GrowCapacity(first_capacity(obuf.start_capacity, gpos),
                                 size)
         IN  IF prepare_needs_block(size)
             THEN [pos |-> obuf.pos + 1,
                   iov |-> SetAt(iov, obuf.pos + 1, [base |-> base, len |-> 0]),
                   capacity |-> SetAt(capacity, gpos + 1, cap),
                   ptr |-> base,
                   block |-> <<[ptr |-> base, header |-> NULL,
                                payload |-> base]>>,
                   failed |-> Check(obuf_pos_check(obuf.pos + 1),
                                    "buf->pos < SMALL_OBUF_IOV_MAX"),
                   overrun |-> gpos + 1 >= Len(capacity)]
             ELSE [pos |-> obuf.pos, iov |-> iov, capacity |-> capacity,
                   ptr |-> Vec(obuf.pos).base + Vec(obuf.pos).len,
                   block |-> <<>>, failed |-> <<>>, overrun |-> FALSE]
    ELSE LET payload == small_wrapper_payload(base, SizeofObufAllocation,
                                              size, SMALL_OBUF_ALIGNMENT)
             header == small_wrapper_header(payload, SizeofObufAllocation)
             pos == checked_pos(obuf.pos, Vec(obuf.pos))
         IN  [pos |-> pos,
              iov |-> SetAt(iov, pos, [base |-> payload, len |-> 0]),
              capacity |-> capacity,
              ptr |-> payload,
              block |-> <<[ptr |-> base, header |-> header,
                           payload |-> payload]>>,
              failed |-> Check(payload >= base, "payload >= ptr")
                         \o Check(header >= base,
                                  "(char *)wrapper->header >= wrapper->ptr"),
              overrun |-> FALSE]

\* the heap and the first words of the headers with the block of prep
HeapWith(prep) ==
    IF prep.block = <<>> THEN blocks
    ELSE Put(blocks, prep.block[1].ptr, prep.block[1])
WordsWith(prep) ==
    IF prep.block = <<>> \/ prep.block[1].header = NULL THEN hdr0
    ELSE Put(hdr0, prep.block[1].header,
             header_alloc_offset(prep.block[1].header, prep.block[1].ptr))

\* obuf_prepare_buf gets to its call of malloc(): a geometric vector is
\* allocated after the assertion on buf->pos
prepare_calls_malloc(size) ==
    /\ prepare_needs_block(size)
    /\ \/ obuf.pos < SMALL_OBUF_IOV_CHECKED_SIZE - 1
       \/ obuf_pos_check(obuf.pos + 1)
       \/ hook

\* the block that malloc() returns to obuf_prepare_buf, if it takes one
ObufMalloc(size, base) ==
    IF prepare_calls_malloc(size) THEN base \in ObufFirstFit
    ELSE base = HEAP_BASE

\* obuf_create(buf, slabc, start_capacity)
OCreate(start_capacity) ==
    /\ Sane
    /\ obuf.state = "none"
    /\ obuf' = [state |-> "created", start_capacity |-> start_capacity,
                pos |-> 0, used |-> 0, reserved |-> 0]
    /\ iov' = [i \in 1..(SMALL_OBUF_IOV_MAX + 1) |-> NoVec]
    /\ capacity' = [i \in 1..(SMALL_OBUF_IOV_GEOMETRIC_SIZE - 1) |-> 0]
    /\ last' = [op |-> "obuf_create", arg |-> start_capacity]
    /\ UNCHANGED <<hook, aborted, msgs, ub, blocks, hdr0, osvp>>

\* the pointer of obuf_alloc_reserved taken at the start of the vector
alloc_reserved_ptr_base(v) == v.base

\* char *ptr = iov->iov_base + iov->iov_len;
alloc_reserved_ptr(v) == v.base + v.len

\* obuf_reserve(buf, size)
OReserve(size, base) ==
    LET f1 == Check(reserve_check(obuf.reserved), "buf->reserved == 0")
        rsize == IF size < PageSize THEN PageSize ELSE size
        prep == obuf_prepare_buf(rsize, base)
        all == f1 \o prep.failed
    IN  /\ Sane
        /\ obuf.state = "created"
        /\ ObufMalloc(rsize, base)
        /\ last' = [op |-> "obuf_reserve", arg |-> size, ret |-> prep.ptr]
        /\ UNCHANGED <<hook, osvp>>
        /\ IF all # <<>> /\ ~hook
           THEN /\ aborted' = TRUE
                /\ msgs' = <<Head(all)>>
                /\ UNCHANGED <<ub, blocks, hdr0, obuf, iov, capacity>>
           ELSE /\ aborted' = FALSE
                /\ msgs' = all
                /\ ub' = (ub \/ prep.overrun)
                /\ blocks' = HeapWith(prep)
                /\ hdr0' = WordsWith(prep)
                /\ iov' = prep.iov
                /\ capacity' = prep.capacity
                /\ obuf' = [obuf EXCEPT !.pos = prep.pos, !.reserved = rsize]

\* the length of a vector set to the bytes of the last allocation
iov_len_set(len, size) == size

\* iov->iov_len += size;
iov_len_add(len, size) == len + size

\* obuf_alloc(buf, size) on a pending reservation: obuf_alloc_reserved
OAllocReserved(size) ==
    LET f1 == Check(size <= obuf.reserved, "size <= buf->reserved")
        v == Vec(obuf.pos)
    IN  /\ Sane
        /\ obuf.state = "created"
        /\ obuf.reserved # 0
        /\ last' = [op |-> "obuf_alloc", arg |-> size,
                    ret |-> alloc_reserved_ptr(v), reserved |-> TRUE]
        /\ UNCHANGED <<hook, ub, blocks, hdr0, capacity, osvp>>
        /\ IF f1 # <<>> /\ ~hook
           THEN /\ aborted' = TRUE
                /\ msgs' = f1
                /\ UNCHANGED <<obuf, iov>>
           ELSE /\ aborted' = FALSE
                /\ msgs' = f1
                /\ iov' = SetAt(iov, obuf.pos,
                              [v EXCEPT !.len = iov_len_add(@, size)])
                /\ obuf' = [obuf EXCEPT !.used = @ + size, !.reserved = 0]

\* obuf_alloc(buf, size) with no reservation
OAllocNew(size, base) ==
    LET prep == obuf_prepare_buf(size, base)
        v == prep.iov[prep.pos + 1]
    IN  /\ Sane
        /\ obuf.state = "created"
        /\ obuf.reserved = 0
        /\ ObufMalloc(size, base)
        /\ last' = [op |-> "obuf_alloc", arg |-> size, ret |-> prep.ptr,
                    reserved |-> FALSE]
        /\ UNCHANGED <<hook, osvp>>
        /\ IF prep.failed # <<>> /\ ~hook
           THEN /\ aborted' = TRUE
                /\ msgs' = <<Head(prep.failed)>>
                /\ UNCHANGED <<ub, blocks, hdr0, obuf, iov, capacity>>
           ELSE /\ aborted' = FALSE
                /\ msgs' = prep.failed
                /\ ub' = (ub \/ prep.overrun)
                /\ blocks' = HeapWith(prep)
                /\ hdr0' = WordsWith(prep)
                /\ iov' = SetAt(prep.iov, prep.pos,
                              [v EXCEPT !.len = iov_len_add(@, size)])
                /\ capacity' = prep.capacity
                /\ obuf' = [obuf EXCEPT !.pos = prep.pos, !.used = @ + size]

\* obuf_create_svp(buf), between two allocations; the caller keeps one
\* savepoint until it rolls back
OCreateSvp ==
    /\ Sane
    /\ obuf.state = "created"
    /\ ~osvp.set
    /\ obuf.reserved = 0
    /\ osvp' = [set |-> TRUE, pos |-> obuf.pos,
                iov_len |-> Vec(obuf.pos).len, used |-> obuf.used]
    /\ last' = [op |-> "obuf_create_svp", arg |-> 0]
    /\ UNCHANGED <<hook, aborted, msgs, ub, blocks, hdr0, obuf, iov, capacity>>

\* obuf_svp_reset(&svp)
obuf_svp_reset == [pos |-> 0, iov_len |-> 0, used |-> 0]

\* the first vector of the rollback, always the one after the savepoint
rollback_pos_after(s) == s.pos + 1

\* int pos = svp->pos;
\* if (!(svp->pos == 0 && svp->iov_len == 0 && buf->iov[0].iov_base != NULL))
\*         pos++;
rollback_pos(s) ==
    IF ~(s.pos = 0 /\ s.iov_len = 0 /\ Vec(0).base # NULL)
    THEN s.pos + 1 ELSE s.pos

\* buf->used after the rollback, left as it was
rollback_used_kept(s) == obuf.used

\* buf->used = svp->used;
rollback_used(s) == s.used

\* the malloc() block of the checked vector i, by small_wrapper_from_payload
checked_ptr(i) ==
    LET header == small_wrapper_header(Vec(i).base, SizeofObufAllocation)
    IN  IF header \in DOMAIN hdr0 THEN wrapper_ptr(header, hdr0[header])
        ELSE NULL

\* obuf_rollback_to_svp(buf, svp) past its first assertion: the vectors, the
\* capacities, the pointers given to free() and the headers that went with
\* them
obuf_rollback(s) ==
    LET pos == rollback_pos(s)
        endpos == Min(obuf.pos, SMALL_OBUF_IOV_CHECKED_SIZE)
        startpos == Max(pos, SMALL_OBUF_IOV_CHECKED_SIZE)
        checked == pos..(endpos - 1)
        geometric == startpos..obuf.pos
        zeroed == [k \in DOMAIN iov |->
                      IF k - 1 \in pos..obuf.pos THEN NoVec ELSE iov[k]]
    IN  [iov |-> SetAt(zeroed, s.pos, [zeroed[s.pos + 1] EXCEPT !.len = s.iov_len]),
         capacity |-> [k \in DOMAIN capacity |->
                          IF k - 1 + SMALL_OBUF_IOV_CHECKED_SIZE \in geometric
                          THEN 0 ELSE capacity[k]],
         ptrs |-> {checked_ptr(i) : i \in checked}
                  \cup ({Vec(i).base : i \in geometric} \ {NULL}),
         headers |-> {small_wrapper_header(Vec(i).base, SizeofObufAllocation) :
                         i \in checked},
         nfreed |-> Cardinality(checked) + Cardinality(geometric)]

\* obuf_rollback_to_svp(buf, svp) as the call op of the program
Rollback(op, s) ==
    LET f1 == Check(s.pos <= obuf.pos, "svp->pos <= (size_t)buf->pos")
        r == obuf_rollback(s)
    IN  /\ Sane
        /\ obuf.state = "created"
        /\ UNCHANGED hook
        /\ IF f1 # <<>> /\ ~hook
           THEN /\ aborted' = TRUE
                /\ msgs' = f1
                /\ last' = [op |-> op, svp |-> s, pos |-> obuf.pos, freed |-> 0]
                /\ UNCHANGED <<ub, blocks, hdr0, obuf, iov, capacity>>
           ELSE /\ aborted' = FALSE
                /\ msgs' = f1
                \* the call, buf->pos before it, the calls of free() it made
                /\ last' = [op |-> op, svp |-> s, pos |-> obuf.pos,
                            freed |-> r.nfreed]
                /\ ub' = (ub \/ ~(r.ptrs \subseteq DOMAIN blocks))
                /\ blocks' = Drop(blocks, r.ptrs \cap DOMAIN blocks)
                /\ hdr0' = Drop(hdr0, r.headers \cap DOMAIN hdr0)
                /\ iov' = r.iov
                /\ capacity' = r.capacity
                \* obuf_destroy frees buf->iov after the rollback
                /\ obuf' = [obuf EXCEPT !.pos = s.pos,
                                        !.used = rollback_used(s),
                                        !.reserved = 0,
                                        !.state = IF op = "obuf_destroy"
                                                  THEN "destroyed" ELSE @]

\* obuf_rollback_to_svp(buf, &svp), svp taken by obuf_create_svp
ORollback ==
    /\ osvp.set
    /\ Rollback("obuf_rollback_to_svp",
                [pos |-> osvp.pos, iov_len |-> osvp.iov_len,
                 used |-> osvp.used])
    /\ osvp' = NoOsvp

\* obuf_reset(buf)
OReset ==
    /\ Rollback("obuf_reset", obuf_svp_reset)
    /\ osvp' = NoOsvp

\* obuf_destroy(buf)
ODestroy ==
    /\ Rollback("obuf_destroy", obuf_svp_reset)
    /\ osvp' = NoOsvp

\* the other allocators while the obuf runs
ObufOthers == <<wvars, rmvars, rvars, lvars, svars, pvars, gvars>>

InitObuf ==
    /\ InitCommon
    /\ ExtraIdle
    /\ WrapperIdle
    /\ HeapIdle
    /\ MempoolIdle
    /\ RegionIdle

NextObuf ==
    \/ \E c \in StartCapacities : OCreate(c) /\ UNCHANGED ObufOthers
    \/ \E s \in ObufSizes, b \in ObufSlots :
          OReserve(s, b) /\ UNCHANGED ObufOthers
    \/ \E s \in ObufSizes : OAllocReserved(s) /\ UNCHANGED ObufOthers
    \/ \E s \in ObufSizes, b \in ObufSlots :
          OAllocNew(s, b) /\ UNCHANGED ObufOthers
    \/ OCreateSvp /\ UNCHANGED ObufOthers
    \/ ORollback /\ UNCHANGED ObufOthers
    \/ OReset /\ UNCHANGED ObufOthers
    \/ ODestroy /\ UNCHANGED ObufOthers

SpecObuf == InitObuf /\ [][NextObuf]_vars

(***************************************************************************)
(* The loop of obuf_prepare_buf, one evaluation of its condition and one   *)
(* execution of its body at a time, for the values obuf_create stores in   *)
(* buf->start_capacity, the geometric vectors and sizes up to the width of *)
(* size_t.  The thread in the loop keeps running; nothing makes a caller   *)
(* call.                                                                   *)
(***************************************************************************)
GrowStarts == 0..MaxStart
\* gpos of a call that takes a vector: capacity[gpos + 1] is written
GrowPositions == -1..(SMALL_OBUF_IOV_GEOMETRIC_SIZE - 3)
GrowSizes == {1, 2, 3, SIZE_MOD \div 2, SIZE_MOD \div 2 + 1, SIZE_MOD - 1}

\* the other variables while the loop runs
GrowOthers == <<hook, aborted, msgs, wvars, hvars, mvars, rvars, lvars, ovars,
                svars, pvars>>

\* size_t capacity = buf->start_capacity << (gpos + 1);
GCall(start_capacity, gpos, size) ==
    /\ grow.pc = "idle"
    /\ grow' = [pc |-> "test", start_capacity |-> start_capacity,
                gpos |-> gpos, size |-> size,
                capacity |-> first_capacity(start_capacity, gpos)]
    /\ last' = [op |-> "obuf_prepare_buf", arg |-> size]

\* while (capacity < size)
GTest ==
    /\ grow.pc = "test"
    /\ grow' = [grow EXCEPT
                  !.pc = IF grow.capacity < grow.size THEN "shift" ELSE "done"]
    /\ UNCHANGED last

\* capacity <<= 1;
GShift ==
    /\ grow.pc = "shift"
    /\ grow' = [grow EXCEPT !.capacity = capacity_shl(@), !.pc = "test"]
    /\ UNCHANGED last

\* the code after the loop: the vector is allocated and the call returns
GReturn ==
    /\ grow.pc = "done"
    /\ grow' = NoGrow
    /\ last' = [op |-> "obuf_prepare_buf", arg |-> grow.size,
                capacity |-> grow.capacity]

InitGrow == InitObuf

NextGrow ==
    \/ \E c \in GrowStarts, g \in GrowPositions, s \in GrowSizes :
          GCall(c, g, s) /\ UNCHANGED GrowOthers
    \/ GTest /\ UNCHANGED GrowOthers
    \/ GShift /\ UNCHANGED GrowOthers
    \/ GReturn /\ UNCHANGED GrowOthers

SpecGrow ==
    /\ InitGrow
    /\ [][NextGrow]_vars
    /\ WF_vars(GTest /\ UNCHANGED GrowOthers)
    /\ WF_vars(GShift /\ UNCHANGED GrowOthers)

(***************************************************************************)
(* A region and then an obuf, each with reservations: the region is used   *)
(* and truncated to nothing before the obuf is created, the two having no  *)
(* state in common but the heap.                                           *)
(***************************************************************************)
PendingSizes == {1, PageSize + 1}

\* the region has not been used or has been truncated to nothing
RegionEmpty ==
    /\ region = [used |-> 0, reserved |-> 0]
    /\ allocations = <<>>
    /\ blocks = NoBlocks

RegionRuns == obuf.state = "none"

InitPending == InitRegion

NextPending ==
    \/ RegionRuns /\ RSetHook /\ UNCHANGED <<wvars, hvars, mvars, rvars, xvars>>
    \/ \E s \in PendingSizes, a \in RegionAlignments, b \in MallocSlots :
          RegionRuns /\ RReserve(s, a, b) /\ UNCHANGED <<wvars, rmvars, xvars>>
    \/ \E s \in PendingSizes, a \in RegionAlignments :
          RegionRuns /\ RAllocReserved(s, a)
          /\ UNCHANGED <<wvars, rmvars, xvars>>
    \/ \E s \in PendingSizes, b \in MallocSlots :
          RegionRuns /\ RAllocNew(s, 1, b) /\ UNCHANGED <<wvars, rmvars, xvars>>
    \/ \E u \in 0..region.used :
          RegionRuns /\ RTruncate(u) /\ UNCHANGED <<wvars, rmvars, xvars>>
    \/ \E s \in 1..region.used, b \in MallocSlots :
          RegionRuns /\ RJoin(s, b, "ignored")
          /\ UNCHANGED <<wvars, rmvars, xvars>>
    \/ RegionEmpty /\ ~hook /\ OCreate(1) /\ UNCHANGED ObufOthers
    \/ \E s \in PendingSizes, b \in ObufSlots :
          OReserve(s, b) /\ UNCHANGED ObufOthers
    \/ \E s \in PendingSizes : OAllocReserved(s) /\ UNCHANGED ObufOthers
    \/ \E b \in ObufSlots : OAllocNew(1, b) /\ UNCHANGED ObufOthers
    \/ OCreateSvp /\ UNCHANGED ObufOthers
    \/ ORollback /\ UNCHANGED ObufOthers
    \/ OReset /\ UNCHANGED ObufOthers
    \/ ODestroy /\ UNCHANGED ObufOthers

SpecPending == InitPending /\ [][NextPending]_vars

(***************************************************************************)
(* small_asan.c.  The Lease Service is the quota of the slab cache: it     *)
(* admits a lease while the bytes leased stay within the total and gives   *)
(* the bytes back at the end of a lease.                                   *)
(***************************************************************************)
QuotaTotals == 1..MaxQuota
SmallSizes == 1..MaxSSize
\* the size a caller may give to smfree
FreeSizes == 0..(MaxSSize + 1)

SIZE_CHECK == "obj->size == size && \"smfree object size check\""

\* quota_lease(quota, size): 0 and the bytes leased, or -1 and no change
quota_lease(q, size) ==
    IF q.leased + size > q.total
    THEN [ret |-> -1, quota |-> q]
    ELSE [ret |-> 0, quota |-> [q EXCEPT !.leased = @ + size]]

\* quota_end_lease(quota, size)
quota_end_lease(q, size) == [q EXCEPT !.leased = @ - size]

\* smalloc giving up on every result of quota_lease but a positive one
smalloc_refused_le(ret) == ret <= 0

\* if (quota_lease(alloc->quota, size) < 0) return NULL;
smalloc_refused(ret) == ret < 0

\* struct small_alloc after a refused smalloc that counted the object
smalloc_refused_counted(a) == [a EXCEPT !.objcount = @ + 1]

\* struct small_alloc after a refused smalloc: return NULL comes first
smalloc_refused_alloc(a) == a

\* the check of smfree taken for a size up to the size of the object
smfree_size_check_le(obj, size) == size <= obj.size

\* small_assert(obj->size == size && "smfree object size check")
smfree_size_check(obj, size) == obj.size = size

\* smfree giving nothing back
smfree_credit_none(obj, size) == 0

\* quota_end_lease(alloc->quota, obj->size); alloc->used -= obj->size;
smfree_credit(obj, size) == obj.size

\* small_alloc_create(&alloc, cache, ...) on a cache whose quota is total
SCreate(total) ==
    /\ Sane
    /\ small.state = "none"
    /\ small' = [state |-> "created", used |-> 0, objcount |-> 0]
    /\ sobjects' = <<>>
    /\ quota' = [total |-> total, leased |-> 0]
    /\ last' = [op |-> "small_alloc_create", arg |-> total]
    /\ UNCHANGED <<hook, aborted, msgs, ub, blocks, hdr0>>

\* smalloc(alloc, size), malloc() returning base
SMalloc(size, base) ==
    LET lease == quota_lease(quota, size)
        payload == small_wrapper_payload(base, SizeofSmallObject, size,
                                         SMALL_ASAN_ALIGNMENT)
        header == small_wrapper_header(payload, SizeofSmallObject)
        failed == Check(payload >= base, "payload >= ptr")
                  \o Check(header >= base,
                           "(char *)wrapper->header >= wrapper->ptr")
        \* the caller tries again the smalloc refused before the last smfree
        retry == last.op = "smfree" /\ last.refused = size
    IN  /\ Sane
        /\ small.state = "created"
        /\ UNCHANGED <<hook, ub>>
        /\ IF smalloc_refused(lease.ret)
           THEN /\ base = HEAP_BASE
                /\ last' = [op |-> "smalloc", arg |-> size, ret |-> NULL,
                            retry |-> retry]
                /\ small' = smalloc_refused_alloc(small)
                /\ quota' = lease.quota
                /\ UNCHANGED <<aborted, msgs, blocks, hdr0, sobjects>>
           ELSE /\ base \in FirstFit
                /\ last' = [op |-> "smalloc", arg |-> size, ret |-> payload,
                            retry |-> retry]
                /\ quota' = lease.quota
                /\ IF failed # <<>> /\ ~hook
                   THEN /\ aborted' = TRUE
                        /\ msgs' = <<Head(failed)>>
                        /\ blocks' = Put(blocks, base,
                                         [NoWrapper EXCEPT !.ptr = base])
                        /\ UNCHANGED <<hdr0, small, sobjects>>
                   ELSE /\ aborted' = FALSE
                        /\ msgs' = failed
                        /\ blocks' = Put(blocks, base,
                                         [ptr |-> base, header |-> header,
                                          payload |-> payload])
                        /\ hdr0' = Put(hdr0, header,
                                       header_alloc_offset(header, base))
                        /\ sobjects' = <<[hdr |-> header, size |-> size,
                                          payload |-> payload]>> \o sobjects
                        /\ small' = [small EXCEPT !.used = @ + size,
                                                  !.objcount = @ + 1]

\* smfree(alloc, ptr, size), ptr being the payload of the i-th object
SMfree(i, size) ==
    LET ptr == sobjects[i].payload
        header == small_wrapper_header(ptr, SizeofSmallObject)
        obj == sobjects[i]
        block == wrapper_ptr(header, hdr0[header])
        f1 == Check(smfree_size_check(obj, size), SIZE_CHECK)
        \* the smalloc refused just before, which the caller may retry
        refused == IF last.op = "smalloc" /\ last.ret = NULL THEN last.arg
                   ELSE 0
    IN  /\ Sane
        /\ small.state = "created"
        /\ i \in 1..Len(sobjects)
        /\ last' = [op |-> "smfree", arg |-> size, ptr |-> ptr,
                    size |-> obj.size, refused |-> refused]
        /\ UNCHANGED hook
        /\ IF f1 # <<>> /\ ~hook
           THEN /\ aborted' = TRUE
                /\ msgs' = f1
                /\ UNCHANGED <<ub, blocks, hdr0, small, sobjects, quota>>
           ELSE /\ aborted' = FALSE
                /\ msgs' = f1
                /\ quota' = quota_end_lease(quota, smfree_credit(obj, size))
                /\ sobjects' = RemoveAt(sobjects, i)
                /\ small' = [small EXCEPT !.used = @ - smfree_credit(obj, size),
                                          !.objcount = @ - 1]
                /\ ub' = (ub \/ block \notin DOMAIN blocks)
                /\ blocks' = Drop(blocks, {block} \cap DOMAIN blocks)
                /\ hdr0' = Drop(hdr0, {header})

\* small_alloc_destroy giving nothing back to the quota
destroy_credit_none(obj) == 0

\* quota_end_lease(alloc->quota, obj->size) of small_alloc_destroy
destroy_credit(obj) == obj.size

\* the bytes small_alloc_destroy gives back for the objects of list
RECURSIVE DestroyCredit(_)
DestroyCredit(list) ==
    IF list = <<>> THEN 0
    ELSE destroy_credit(Head(list)) + DestroyCredit(Tail(list))

\* small_alloc_destroy(alloc): alloc->used and alloc->objcount are not
\* written
SDestroy ==
    LET headers == {sobjects[i].hdr : i \in 1..Len(sobjects)}
        ptrs == {wrapper_ptr(h, hdr0[h]) : h \in headers}
    IN  /\ Sane
        /\ small.state = "created"
        /\ last' = [op |-> "small_alloc_destroy", arg |-> Len(sobjects)]
        /\ UNCHANGED <<hook, aborted>>
        /\ msgs' = <<>>
        /\ quota' = quota_end_lease(quota, DestroyCredit(sobjects))
        /\ ub' = (ub \/ ~(ptrs \subseteq DOMAIN blocks))
        /\ blocks' = Drop(blocks, ptrs \cap DOMAIN blocks)
        /\ hdr0' = Drop(hdr0, headers)
        /\ sobjects' = <<>>
        /\ small' = [small EXCEPT !.state = "destroyed"]

\* small_on_assert_failure is set or reset between two calls
SSetHook ==
    /\ Sane
    /\ small.state = "created"
    /\ SetHook

\* the other allocators while the small_alloc runs
SmallOthers == <<wvars, rmvars, rvars, lvars, ovars, pvars, gvars>>

InitSmall ==
    /\ InitCommon
    /\ ExtraIdle
    /\ WrapperIdle
    /\ HeapIdle
    /\ MempoolIdle
    /\ RegionIdle

NextSmall ==
    \/ SSetHook /\ UNCHANGED <<hvars, hdr0, svars, SmallOthers>>
    \/ \E n \in QuotaTotals : SCreate(n) /\ UNCHANGED SmallOthers
    \/ \E s \in SmallSizes, b \in MallocSlots :
          SMalloc(s, b) /\ UNCHANGED SmallOthers
    \/ \E i \in 1..MaxSlots, s \in FreeSizes :
          SMfree(i, s) /\ UNCHANGED SmallOthers
    \/ SDestroy /\ UNCHANGED SmallOthers

SpecSmall == InitSmall /\ [][NextSmall]_vars

(***************************************************************************)
(* Two small_alloc created on one slab cache, as small_membership does:    *)
(* alloc1 is small with sobjects, alloc2 has objects2, and both lease from *)
(* the quota of the cache. small_on_assert_failure stays unset.            *)
(***************************************************************************)
\* the sizes of the objects of list, summed
RECURSIVE Outstanding(_)
Outstanding(list) ==
    IF list = <<>> THEN 0 ELSE Head(list).size + Outstanding(Tail(list))

Instances == {1, 2}

\* a free through the wrong instance left the counters off the lists
Crossed ==
    \/ small.used # Outstanding(sobjects)
    \/ alloc2.used # Outstanding(objects2)

\* struct small_alloc of one of the two instances
AllocOf(n) == IF n = 1 THEN small ELSE alloc2

\* alloc->objects of one of the two instances
ObjectsOf(n) == IF n = 1 THEN sobjects ELSE objects2

\* smfree counting the free on the instance that was not passed
smfree_alloc_other(via, from) == 3 - via

\* alloc->used -= obj->size; alloc->objcount--; alloc is the argument
smfree_alloc(via, from) == via

\* small_alloc_create(&alloc2, cache, ...) on the cache alloc1 is on
S2Create ==
    /\ Sane
    /\ small.state = "created"
    /\ alloc2.state = "none"
    /\ alloc2' = [state |-> "created", used |-> 0, objcount |-> 0]
    /\ objects2' = <<>>
    /\ last' = [op |-> "small_alloc_create", arg |-> quota.total, via |-> 2]
    /\ UNCHANGED <<hook, aborted, msgs, ub, blocks, hdr0, svars>>

\* smalloc(&alloc2, size), malloc() returning base
S2Malloc(size, base) ==
    LET lease == quota_lease(quota, size)
        payload == small_wrapper_payload(base, SizeofSmallObject, size,
                                         SMALL_ASAN_ALIGNMENT)
        header == small_wrapper_header(payload, SizeofSmallObject)
        failed == Check(payload >= base, "payload >= ptr")
                  \o Check(header >= base,
                           "(char *)wrapper->header >= wrapper->ptr")
    IN  /\ Sane
        /\ alloc2.state = "created"
        /\ UNCHANGED <<hook, ub, small, sobjects>>
        /\ IF smalloc_refused(lease.ret)
           THEN /\ base = HEAP_BASE
                /\ last' = [op |-> "smalloc", arg |-> size, ret |-> NULL,
                            retry |-> FALSE, via |-> 2]
                /\ alloc2' = smalloc_refused_alloc(alloc2)
                /\ quota' = lease.quota
                /\ UNCHANGED <<aborted, msgs, blocks, hdr0, objects2>>
           ELSE /\ base \in FirstFit
                /\ last' = [op |-> "smalloc", arg |-> size, ret |-> payload,
                            retry |-> FALSE, via |-> 2]
                /\ quota' = lease.quota
                /\ IF failed # <<>> /\ ~hook
                   THEN /\ aborted' = TRUE
                        /\ msgs' = <<Head(failed)>>
                        /\ blocks' = Put(blocks, base,
                                         [NoWrapper EXCEPT !.ptr = base])
                        /\ UNCHANGED <<hdr0, alloc2, objects2>>
                   ELSE /\ aborted' = FALSE
                        /\ msgs' = failed
                        /\ blocks' = Put(blocks, base,
                                         [ptr |-> base, header |-> header,
                                          payload |-> payload])
                        /\ hdr0' = Put(hdr0, header,
                                       header_alloc_offset(header, base))
                        /\ objects2' = <<[hdr |-> header, size |-> size,
                                          payload |-> payload]>> \o objects2
                        /\ alloc2' = [alloc2 EXCEPT !.used = @ + size,
                                                    !.objcount = @ + 1]

\* smfree(alloc, ptr, size): alloc is instance via, ptr the payload of the
\* i-th object of instance from. rlist_del unlinks the object from the list
\* it is in, the counters are those of the instance passed, and size_t
\* wraps around.
PairMfree(via, from, i, size) ==
    LET list == ObjectsOf(from)
        obj == list[i]
        ptr == obj.payload
        header == small_wrapper_header(ptr, SizeofSmallObject)
        block == wrapper_ptr(header, hdr0[header])
        f1 == Check(smfree_size_check(obj, size), SIZE_CHECK)
        counted == smfree_alloc(via, from)
        unlinked == RemoveAt(list, i)
        after == [AllocOf(counted) EXCEPT
                     !.used = (@ - smfree_credit(obj, size)) % SIZE_MOD,
                     !.objcount = (@ - 1) % SIZE_MOD]
    IN  /\ Sane
        /\ AllocOf(via).state = "created"
        /\ AllocOf(from).state = "created"
        /\ i \in 1..Len(list)
        \* one free through the wrong instance in a run
        /\ via # from => ~Crossed
        /\ last' = [op |-> "smfree", arg |-> size, ptr |-> ptr,
                    size |-> obj.size, refused |-> 0, via |-> via,
                    from |-> from]
        /\ UNCHANGED hook
        /\ IF f1 # <<>> /\ ~hook
           THEN /\ aborted' = TRUE
                /\ msgs' = f1
                /\ UNCHANGED <<ub, blocks, hdr0, svars, pvars>>
           ELSE /\ aborted' = FALSE
                /\ msgs' = f1
                /\ quota' = quota_end_lease(quota, smfree_credit(obj, size))
                /\ sobjects' = IF from = 1 THEN unlinked ELSE sobjects
                /\ objects2' = IF from = 2 THEN unlinked ELSE objects2
                /\ small' = IF counted = 1 THEN after ELSE small
                /\ alloc2' = IF counted = 2 THEN after ELSE alloc2
                /\ ub' = (ub \/ block \notin DOMAIN blocks)
                /\ blocks' = Drop(blocks, {block} \cap DOMAIN blocks)
                /\ hdr0' = Drop(hdr0, {header})

\* the other allocators while the two small_alloc run
PairOthers == <<wvars, rmvars, rvars, lvars, ovars, gvars>>

InitSmallPair == InitSmall

NextSmallPair ==
    \/ \E n \in QuotaTotals : SCreate(n) /\ UNCHANGED <<PairOthers, pvars>>
    \/ S2Create /\ UNCHANGED PairOthers
    \/ \E s \in SmallSizes, b \in MallocSlots :
          SMalloc(s, b) /\ UNCHANGED <<PairOthers, pvars>>
    \/ \E s \in SmallSizes, b \in MallocSlots :
          S2Malloc(s, b) /\ UNCHANGED PairOthers
    \/ \E v \in Instances, f \in Instances, i \in 1..MaxSlots,
          s \in SmallSizes :
          PairMfree(v, f, i, s) /\ UNCHANGED PairOthers
    \/ SDestroy /\ UNCHANGED <<PairOthers, pvars>>

SpecSmallPair == InitSmallPair /\ [][NextSmallPair]_vars

(***************************************************************************)
(* Properties of the wrapper.                                              *)
(***************************************************************************)
Range(f) == {f[i] : i \in DOMAIN f}
WrapperEnd ==
    w.ptr + small_wrapper_size(wargs.header_size, wargs.payload_size,
                               wargs.alignment)
PayloadAddrs == w.payload..(w.payload + wargs.payload_size - 1)
GapAddrs == magic_begin_of(w.payload)..(w.payload - 1)
Aligned(p, a) == p % a = 0 /\ p % (2 * a) # 0

\* C1: the payload address of every block, as computed at allocation and as
\* recomputed from the header, is a multiple of the alignment A and not a
\* multiple of 2 * A (odd for A = 1)
C1_AlignmentInvariant ==
    /\ wphase \in {"allocated", "live", "opened"}
          => Aligned(w.payload, wargs.alignment)
    /\ wh.payload # NULL => Aligned(wh.payload, wargs.alignment)

\* a block whose payload was moved back from a 2 * A boundary
C1_Witness ==
    /\ wphase = "allocated"
    /\ wargs.alignment = 8
    /\ wargs.payload_size > 0
    /\ small_align_down(WrapperEnd - wargs.payload_size, wargs.alignment)
           = w.payload + wargs.alignment

\* C2: small_wrapper_from_header and small_wrapper_from_payload recover the
\* pointers of the allocation, and header -> payload -> header and
\* payload -> header -> payload are the identity
C2_RoundTrip ==
    /\ wh.payload # NULL =>
          /\ wh = w
          /\ small_wrapper_header(wh.payload, wargs.header_size) = w.header
    /\ wp.ptr # NULL =>
          /\ wp = w
          /\ small_wrapper_payload(wrapper_ptr(wp.header, alloc_offset),
                                   wargs.header_size, wargs.payload_size,
                                   wargs.alignment) = w.payload

\* both lookups were made on a block whose header is not at its base
C2_Witness ==
    /\ wphase = "opened"
    /\ wh = w
    /\ wp = w
    /\ w.header > w.ptr

\* C3: after small_wrapper_alloc every byte from the payload end to the block
\* end is poisoned; after small_wrapper_poison every byte from the block base
\* to the header is poisoned; the payload is accessible at both points
C3_GuardCoverage ==
    /\ wphase \in {"allocated", "live"} =>
          /\ \A a \in (w.payload + wargs.payload_size)..(WrapperEnd - 1) :
                asan_address_is_poisoned(shadow, a)
          /\ \A a \in PayloadAddrs : ~asan_address_is_poisoned(shadow, a)
    /\ wphase = "live" =>
          \A a \in w.ptr..(w.header - 1) : asan_address_is_poisoned(shadow, a)

\* a poisoned block with a leading margin, a payload and a trailing margin
C3_Witness ==
    /\ wphase = "live"
    /\ w.header > w.ptr
    /\ wargs.payload_size > 0
    /\ w.payload + wargs.payload_size < WrapperEnd

\* C4: small_wrapper_from_payload and small_wrapper_free fail the wrapper
\* magic check exactly when a byte of the gap [magic_begin, payload) differs
\* from what small_wrapper_poison wrote there
C4_MagicCheck ==
    [][last'.op \in {"from_payload", "free"} =>
          ((MAGIC_CHECK \in Range(msgs')) <=> gap # wrapper_magic(w.payload))]_vars

\* a lookup from the payload reported a changed gap byte to the callback
C4_Witness ==
    /\ last.op = "from_payload"
    /\ hook
    /\ msgs = <<MAGIC_CHECK>>
    /\ ncorrupt = 1
    /\ wp = w

\* C5 as claimed: every byte of a handed-out block outside its payload is
\* poisoned
C5_AllGuarded ==
    wphase = "live" =>
        \A a \in BlockAddrs :
            a \notin PayloadAddrs => asan_address_is_poisoned(shadow, a)

\* C5 amended: the accessible bytes of a handed-out block are its payload and
\* the gap between the poison boundary below the payload and the payload;
\* every other byte of the block is poisoned
C5_GuardedExceptGap ==
    wphase = "live" =>
        \A a \in BlockAddrs :
            asan_address_is_poisoned(shadow, a)
                <=> (a \notin PayloadAddrs /\ a \notin GapAddrs)

\* a handed-out block with a gap, a payload and a trailing margin
C5_Witness ==
    /\ wphase = "live"
    /\ GapAddrs # {}
    /\ wargs.payload_size > 0
    /\ w.payload + wargs.payload_size < WrapperEnd

(***************************************************************************)
(* Properties of the mempool.                                              *)
(***************************************************************************)
\* C6: after N calls of mempool_alloc and M calls of mempool_free on live
\* pointers mempool_count is N - M and mempool_used is objsize * (N - M)
C6_MempoolCount ==
    pool.state = "created" =>
        /\ mempool_count(pool) = nalloc - nfree
        /\ mempool_used(pool) = pool.objsize * (nalloc - nfree)

\* an allocation made after a free, two objects of three bytes each live
C6_Witness ==
    /\ last.op = "mempool_alloc"
    /\ ~aborted
    /\ nalloc = 3
    /\ nfree = 1
    /\ pool.objsize = 3
    /\ mempool_count(pool) = 2
    /\ mempool_used(pool) = 6

\* C7: mempool_destroy releases every live block of the pool, none of them
\* twice and nothing else, and leaves the list empty
C7_DestroyReleasesAll ==
    last.op = "mempool_destroy" =>
        /\ blocks = NoBlocks
        /\ objects = <<>>
        /\ ~ub

(***************************************************************************)
(* Properties of the region.                                               *)
(***************************************************************************)
\* list without the records of no usage at its head
RECURSIVE StripUnused(_)
StripUnused(list) ==
    IF list # <<>> /\ Head(list).used = 0 THEN StripUnused(Tail(list)) ELSE list

\* the headers of the live blocks
LiveHeaders == {blocks[b].header : b \in DOMAIN blocks}
\* the headers of the records of list
ListHeaders(list) == {list[i].hdr : i \in 1..Len(list)}

\* region_truncate has cut the region to the savepoint in this step
C8_Step == last'.op = "region_truncate" /\ svp.set /\ last'.arg = svp.used

\* C8 as stated: region_truncate(u) to a savepoint u sets region.used back to
\* u, frees every block allocated after the savepoint once and leaves the
\* list as it was at the savepoint.
C8_TruncateRestoresList ==
    [][C8_Step =>
         /\ region'.used = svp.used
         /\ allocations' = svp.list
         /\ LiveHeaders' = ListHeaders(svp.list)
         /\ ~ub' /\ ~aborted' /\ msgs' = <<>>]_vars

\* C8: region_truncate(u) to a savepoint u sets region.used back to u and
\* drops the reservation, frees every block allocated after the savepoint
\* once, and leaves the list as it was at the savepoint but for the records of
\* no usage at its head, which are freed too.
C8_TruncateToSavepoint ==
    [][C8_Step =>
         /\ region' = [used |-> svp.used, reserved |-> 0]
         /\ allocations' = StripUnused(svp.list)
         /\ LiveHeaders' = ListHeaders(StripUnused(svp.list))
         /\ ~ub' /\ ~aborted' /\ msgs' = <<>>]_vars

C8_Witness ==
    /\ last.op = "region_truncate"
    /\ last.svp.set
    /\ last.svp.list # <<>> /\ Head(last.svp.list).used = 0
    /\ allocations = StripUnused(last.svp.list)
    \* more blocks freed than the savepoint had: one allocated after it
    /\ last.freed > Len(last.svp.list) - Len(allocations)
    /\ region.used = last.svp.used

\* the cut of cut_size bytes ends inside a record of list: the records
\* before it take less than cut_size, with it they take more
CutInside(list, cut_size) ==
    \E k \in 1..Len(list) :
        /\ UsedSum(list, k - 1) < cut_size
        /\ cut_size < UsedSum(list, k)

\* C9: region_truncate(used) whose cut ends inside a record fails
\* small_assert(alloc->used <= cut_size): the failure is reported, without
\* the hook the call ends there with region.used as it was, and no record is
\* left with a part of its bytes.
C9_PartialTruncateFails ==
    [][(/\ last'.op = "region_truncate"
        /\ last'.arg <= region.used
        /\ CutInside(allocations, region.used - last'.arg))
        => /\ TRUNCATE_CHECK \in Range(msgs')
           /\ ~hook => (aborted' /\ region' = region)
           /\ Range(allocations') \subseteq Range(allocations)]_vars

C9_Witness ==
    /\ last.op = "region_truncate"
    /\ aborted
    /\ msgs = <<TRUNCATE_CHECK>>
    /\ last.freed >= 1
    /\ allocations # <<>>
    /\ last.arg < region.used

\* the consumed bytes of the records of list in the order of allocation
RECURSIVE Concat(_)
Concat(list) == IF list = <<>> THEN <<>> ELSE Concat(Tail(list)) \o Head(list).data
\* the last n elements of q
LastBytes(q, n) == SubSeq(q, Len(q) - n + 1, Len(q))

\* C10: region_join(size) with size <= region.used and no reservation returns
\* a block that holds the last size bytes of the consumed bytes of the records
\* that the region had, taken in the order of allocation.
C10_JoinIsTail ==
    (last.op = "region_join" /\ ~aborted /\ msgs = <<>> /\ ~ub)
        => Head(allocations).data = LastBytes(Concat(Tail(allocations)), last.arg)

\* the one call of a callback with size as its argument
OneCall(cb, size) == <<[cb |-> cb, size |-> size]>>

\* C11 as stated: with the callbacks set, every committed allocation
\* (region_aligned_alloc, region_join) calls on_alloc_cb once with the bytes
\* allocated, region_aligned_reserve calls nothing, and region_truncate calls
\* on_truncate_cb once with the bytes cut, region.used before the call minus
\* the target.
C11_TruncateCbGetsDelta ==
    [][(region_cbs /\ ~aborted') =>
         /\ last'.op \in {"region_aligned_alloc", "region_join"}
                => cb_calls' = OneCall("on_alloc_cb", last'.arg)
         /\ last'.op = "region_aligned_reserve" => cb_calls' = <<>>
         /\ (last'.op = "region_truncate" /\ last'.arg <= region.used)
                => cb_calls' = OneCall("on_truncate_cb", region.used - last'.arg)
      ]_vars

\* C11: with the callbacks set, every committed allocation
\* (region_aligned_alloc, region_join) calls on_alloc_cb once with the bytes
\* allocated, region_aligned_reserve calls nothing, and region_truncate calls
\* on_truncate_cb once with the target used, the value of region.used after
\* the call.
C11_Callbacks ==
    (region_cbs /\ ~aborted) =>
        /\ last.op \in {"region_aligned_alloc", "region_join"}
               => cb_calls = OneCall("on_alloc_cb", last.arg)
        /\ last.op = "region_aligned_reserve" => cb_calls = <<>>
        /\ last.op = "region_truncate"
               => /\ cb_calls = OneCall("on_truncate_cb", last.arg)
                  /\ region.used = last.arg

\* a truncation that freed a block and left one byte in the region
C11_Witness ==
    /\ region_cbs
    /\ last.op = "region_truncate"
    /\ ~aborted /\ msgs = <<>>
    /\ last.freed >= 1
    /\ last.arg = 1
    /\ cb_calls = OneCall("on_truncate_cb", 1)

(***************************************************************************)
(* Properties of the lsregion.                                             *)
(***************************************************************************)
\* the ids of list do not decrease from the oldest record on
IdsSorted(list) ==
    \A i, j \in 1..Len(list) : i < j => list[i].id <= list[j].id

\* the sum of the sizes of the records of list
RECURSIVE SizeSum(_)
SizeSum(list) == IF list = <<>> THEN 0 ELSE Head(list).size + SizeSum(Tail(list))

\* the records of list with an id above min_id, in the order of list
RECURSIVE Above(_, _)
Above(list, min_id) ==
    IF list = <<>> THEN <<>>
    ELSE IF Head(list).id > min_id
    THEN <<Head(list)>> \o Above(Tail(list), min_id)
    ELSE Above(Tail(list), min_id)

\* C12: when the ids of the allocations did not decrease, lsregion_gc(min_id)
\* frees the records with id <= min_id, each once, keeps the records with
\* id > min_id live and in their order, and takes the sizes of the freed
\* records off lsregion.used.
C12_GcFreesUpToMinId ==
    [][(last'.op = "lsregion_gc" /\ IdsSorted(lsallocs)) =>
         /\ lsallocs' = Above(lsallocs, last'.arg)
         /\ LiveHeaders' = ListHeaders(Above(lsallocs, last'.arg))
         /\ last'.freed = Len(lsallocs) - Len(lsallocs')
         /\ lsregion'.used = lsregion.used
                              - (SizeSum(lsallocs) - SizeSum(lsallocs'))
         /\ ~ub' /\ ~aborted' /\ msgs' = <<>>]_vars

\* a gc that freed a record and kept two
C12_Witness ==
    /\ last.op = "lsregion_gc"
    /\ last.freed >= 1
    /\ Len(lsallocs) >= 2
    /\ \A i \in 1..Len(lsallocs) : lsallocs[i].id > last.arg
    /\ lsregion.used = SizeSum(lsallocs)
    /\ lsregion.used > 0

(***************************************************************************)
(* Properties of the obuf.                                                 *)
(***************************************************************************)
POS_CHECK == "buf->pos < SMALL_OBUF_IOV_MAX"
RollbackOps == {"obuf_rollback_to_svp", "obuf_reset"}

\* obuf_iovcnt(buf)
obuf_iovcnt == IF Vec(obuf.pos).base # NULL THEN obuf.pos + 1 ELSE obuf.pos

\* the blocks of the heap, by the address a vector holds for them
LivePayloads == {blocks[b].payload : b \in DOMAIN blocks}
\* the blocks the vectors refer to
VecBases == {iov[k].base : k \in DOMAIN iov} \ {NULL}

\* C13: the pointer returned by obuf_reserve(size) is the pointer returned by
\* the obuf_alloc(s) that follows it at once, for every s <= max(size,
\* pagesize), in the checked and in the geometric vectors; the obuf_alloc
\* adds s to obuf_size and to the length of the current vector and clears
\* the reservation.
C13_ReserveThenAlloc ==
    [][(/\ last.op = "obuf_reserve" /\ ~aborted
        /\ last'.op = "obuf_alloc"
        /\ last'.arg <= Max(last.arg, PageSize)) =>
         /\ ~aborted' /\ msgs' = <<>>
         /\ last'.ret = last.ret
         /\ obuf'.used = obuf.used + last'.arg
         /\ obuf'.pos = obuf.pos
         /\ iov'[obuf.pos + 1] =
                [base |-> Vec(obuf.pos).base,
                 len |-> Vec(obuf.pos).len + last'.arg]
         /\ obuf'.reserved = 0]_vars

\* an obuf_alloc on a reservation made in a geometric vector that held
\* bytes already
C13_Witness ==
    /\ last.op = "obuf_alloc"
    /\ last.reserved
    /\ ~aborted
    /\ obuf.pos >= SMALL_OBUF_IOV_CHECKED_SIZE
    /\ last.ret # Vec(obuf.pos).base
    /\ last.arg < PageSize

\* C14: after a rollback to a savepoint taken on an empty obuf, or after
\* obuf_reset, used, pos and reserved are 0, obuf_iovcnt is 0 and every
\* vector is (NULL, 0), whatever was reserved and allocated in between.
C14_RollbackToEmpty ==
    (last.op \in RollbackOps /\ ~aborted /\ last.svp = obuf_svp_reset) =>
        /\ obuf.used = 0
        /\ obuf.pos = 0
        /\ obuf.reserved = 0
        /\ obuf_iovcnt = 0
        /\ \A k \in DOMAIN iov : iov[k] = NoVec

\* a rollback from a geometric vector to a savepoint taken on the empty obuf
C14_Witness ==
    /\ last.op = "obuf_rollback_to_svp"
    /\ ~aborted
    /\ last.svp = obuf_svp_reset
    /\ last.pos >= SMALL_OBUF_IOV_CHECKED_SIZE
    /\ last.freed >= 2

\* C15: obuf_rollback_to_svp releases, each once, the blocks of the vectors
\* above the savepoint up to and including buf->pos (and of vector 0 when it
\* rolls back to the start of vector 0); after it no block is live but those
\* the vectors 0..pos refer to.
C15_RollbackReleasesBlocks ==
    (last.op \in RollbackOps /\ ~aborted) =>
        /\ ~ub
        /\ LivePayloads = VecBases

\* C16: obuf_rollback_to_svp restores pos, used and the length of the vector
\* of the savepoint, clears the reservation, leaves the vectors below the
\* savepoint and the base of its vector as they were (unless it rolls back to
\* the start of vector 0), and sets the vectors above the savepoint to
\* (NULL, 0) and the capacities of the freed geometric vectors to 0.
C16_RollbackRestores ==
    [][(last'.op = "obuf_rollback_to_svp" /\ ~aborted') =>
         LET s == last'.svp
         IN  /\ obuf'.pos = s.pos
             /\ obuf'.used = s.used
             /\ iov'[s.pos + 1].len = s.iov_len
             /\ obuf'.reserved = 0
             /\ \A i \in 0..(s.pos - 1) : iov'[i + 1] = iov[i + 1]
             /\ ~(s.pos = 0 /\ s.iov_len = 0)
                    => iov'[s.pos + 1].base = iov[s.pos + 1].base
             /\ \A i \in (s.pos + 1)..SMALL_OBUF_IOV_MAX : iov'[i + 1] = NoVec
             /\ \A g \in 0..(SMALL_OBUF_IOV_GEOMETRIC_SIZE - 2) :
                    capacity'[g + 1] =
                        IF g + SMALL_OBUF_IOV_CHECKED_SIZE > s.pos
                        THEN 0 ELSE capacity[g + 1]]_vars

\* a rollback from a geometric vector into the middle of a vector that is
\* not the first
C16_Witness ==
    /\ last.op = "obuf_rollback_to_svp"
    /\ ~aborted
    /\ last.svp.pos >= 1
    /\ last.svp.iov_len > 0
    /\ last.pos > last.svp.pos
    /\ last.pos >= SMALL_OBUF_IOV_CHECKED_SIZE
    /\ obuf.used = last.svp.used

LastRequest ==
    IF last.op = "obuf_reserve" THEN Max(last.arg, PageSize) ELSE last.arg

RetryAfterFree ==
    /\ last.op = "smfree" /\ ~aborted /\ msgs = <<>>
    /\ last.refused > 0
    /\ last'.op = "smalloc"
    /\ last'.arg = last.refused

\* C18, as stated: after the smfree of any one of the outstanding
\* allocations the smalloc that was refused succeeds.
C18_RetryAfterFreeSucceeds ==
    [][RetryAfterFree => last'.ret # NULL]_vars

\* C18: with a quota of N bytes smalloc succeeds when the outstanding total
\* with the new size stays within N and returns NULL otherwise, the
\* outstanding total never exceeds N, and the smalloc refused before an
\* smfree succeeds when the object freed was at least as large as the
\* request.
C18_QuotaAdmission ==
    [][last'.op = "smalloc" =>
         /\ last'.ret # NULL
                <=> Outstanding(sobjects) + last'.arg <= quota.total
         /\ Outstanding(sobjects') <= quota'.total
         /\ small'.used = Outstanding(sobjects')
         /\ (RetryAfterFree /\ last.size >= last'.arg) => last'.ret # NULL]_vars

\* an smalloc refused, an object freed, and the smalloc tried again with
\* success, the quota being full again
C18_Witness ==
    /\ last.op = "smalloc"
    /\ last.retry
    /\ last.ret # NULL
    /\ Len(sobjects) >= 2
    /\ small.used = quota.total

\* C19: an smalloc that the Lease Service refuses returns NULL and leaves
\* alloc.used, alloc.objcount, the list of objects, the bytes leased and the
\* heap as they were.
C19_RefusedChangesNothing ==
    [][(last'.op = "smalloc" /\ quota.leased + last'.arg > quota.total) =>
         /\ last'.ret = NULL
         /\ small' = small
         /\ sobjects' = sobjects
         /\ quota' = quota
         /\ blocks' = blocks
         /\ hdr0' = hdr0
         /\ ~aborted' /\ msgs' = <<>>]_vars

\* a refused smalloc with two objects outstanding and room left in the quota
C19_Witness ==
    /\ last.op = "smalloc"
    /\ last.ret = NULL
    /\ Len(sobjects) = 2
    /\ small.objcount = 2
    /\ quota.leased < quota.total

\* C20: smfree with a size that is not the size the object was allocated
\* with fails the check of the object size, whatever the two sizes: the
\* process aborts, or the failure is reported when small_on_assert_failure
\* is set.
C20_WrongSizeInFree ==
    [][(last'.op = "smfree" /\ last'.arg # last'.size) =>
         /\ SIZE_CHECK \in Range(msgs')
         /\ aborted' = ~hook]_vars

\* the failure reported for an smfree with a size one above
C20_Witness ==
    /\ last.op = "smfree"
    /\ last.arg = last.size + 1
    /\ hook /\ ~aborted
    /\ msgs = <<SIZE_CHECK>>

(***************************************************************************)
(* Properties of two small_alloc on one slab cache.                        *)
(***************************************************************************)
\* the instance the operation recorded in l was called on
Via(l) == IF "via" \in DOMAIN l THEN l.via ELSE 1

\* the operation recorded in l was given a pointer of another instance
Foreign(l) == l.op = "smfree" /\ "from" \in DOMAIN l /\ l.from # l.via

\* the blocks of the objects of list
BlocksOf(list) == {b \in DOMAIN blocks : blocks[b].header \in ListHeaders(list)}

\* C21 as stated: smfree through a small_alloc other than the one whose
\* smalloc returned the payload, with the right size, fails an assertion and
\* does not count as a free of the instance it was called on.
C21_MismatchDetected ==
    [][(Foreign(last') /\ last'.arg = last'.size) =>
         /\ msgs' # <<>>
         /\ (last'.via = 1 => small' = small)
         /\ (last'.via = 2 => alloc2' = alloc2)]_vars

C22_Accounting ==
    (small.state = "created" /\ ~aborted) =>
        /\ small.used = Outstanding(sobjects)
        /\ small.objcount = Len(sobjects)
        /\ ListHeaders(sobjects) = LiveHeaders
        /\ Cardinality(LiveHeaders) = Len(sobjects)
        /\ quota.leased = small.used
        /\ sobjects = <<>> => (small.used = 0 /\ small.objcount = 0)

\* every object has been freed again
C22_Witness ==
    /\ last.op = "smfree"
    /\ last.arg = last.size
    /\ ~aborted
    /\ sobjects = <<>>
    /\ small.used = 0
    /\ blocks = NoBlocks

\* C23: a small_assert whose condition is false, here the size check of
\* smfree: with small_on_assert_failure unset the process aborts and nothing
\* after the assertion runs; with it set the callback is called once with
\* the text of the condition and the statements after the assertion run.
C23_AssertFailure ==
    [][(last'.op = "smfree" /\ last'.arg # last'.size) =>
         IF ~hook
         THEN /\ aborted'
              /\ small' = small
              /\ sobjects' = sobjects
              /\ quota' = quota
              /\ blocks' = blocks
         ELSE /\ ~aborted'
              /\ msgs' = <<SIZE_CHECK>>
              /\ quota'.leased = quota.leased - last'.size
              /\ small'.used = small.used - last'.size
              /\ small'.objcount = small.objcount - 1
              /\ Len(sobjects') = Len(sobjects) - 1
              /\ Cardinality(DOMAIN blocks') =
                    Cardinality(DOMAIN blocks) - 1]_vars

\* the callback has been called for an smfree with a size below that of
\* the object, one object staying live
C23_Witness ==
    /\ last.op = "smfree"
    /\ last.arg < last.size
    /\ hook /\ ~aborted
    /\ msgs = <<SIZE_CHECK>>
    /\ Len(sobjects) = 1

(***************************************************************************)
(* Properties of obuf_reset and obuf_destroy.                              *)
(***************************************************************************)
\* C25 as stated: obuf_destroy and obuf_reset release every vector block the
\* obuf allocated, each once, whatever the state of the buffer, so that no
\* vector block is live afterwards.
C25_ResetReleasesAll ==
    (last.op \in {"obuf_reset", "obuf_destroy"} /\ ~aborted) =>
        /\ ~ub
        /\ blocks = NoBlocks

(***************************************************************************)
(* Properties of the layout of a wrapper block.                            *)
(***************************************************************************)
\* C28: for a block of small_wrapper_alloc whose base is aligned to
\* SMALL_HEADER_ALIGNMENT and whose header_size is a multiple of it:
\* ptr <= header, header is aligned to SMALL_HEADER_ALIGNMENT,
\* header + header_size <= align_down(payload, SMALL_POISON_ALIGNMENT)
\* <= payload, payload + payload_size <= ptr + wrapper_size, and neither
\* assertion of small_wrapper_alloc has failed.
C28_Layout ==
    (/\ last.op = "alloc"
     /\ w.ptr % SMALL_HEADER_ALIGNMENT = 0
     /\ wargs.header_size % SMALL_HEADER_ALIGNMENT = 0) =>
        /\ ~aborted
        /\ msgs = <<>>
        /\ wphase = "allocated"
        /\ w.ptr <= w.header
        /\ w.header % SMALL_HEADER_ALIGNMENT = 0
        /\ w.header + wargs.header_size <= magic_begin_of(w.payload)
        /\ magic_begin_of(w.payload) <= w.payload
        /\ w.payload + wargs.payload_size <= WrapperEnd

\* a block whose payload is off the poison alignment, with magic bytes
\* between the header and the payload
C28_Witness ==
    /\ last.op = "alloc"
    /\ wphase = "allocated"
    /\ w.payload % SMALL_POISON_ALIGNMENT # 0
    /\ wargs.header_size = SizeofSmallHeader * MaxHdrWords
    /\ wargs.payload_size > 0
    /\ magic_begin_of(w.payload) < w.payload

(***************************************************************************)
(* Properties of region_aligned_alloc.                                     *)
(***************************************************************************)
\* C29: region_aligned_alloc(size, alignment) on a pending reservation fails
\* an assertion when size > region.reserved or when alignment is not that of
\* the reservation; otherwise it returns the pointer region_aligned_reserve
\* returned, adds size to region.used and to used of the reserved record,
\* clears region.reserved and adds no record. With no reservation it adds
\* one record at the head with size = used = size and adds size to
\* region.used.
C29_AlignedAlloc ==
    [][last'.op = "region_aligned_alloc" =>
         IF region.reserved # 0
         THEN LET head == Head(allocations)
                  size == last'.arg
              IN  /\ size > region.reserved =>
                        "size <= region->reserved" \in Range(msgs')
                  /\ last'.alignment # head.alignment =>
                        \/ "alignment == alloc->alignment" \in Range(msgs')
                        \/ aborted' /\ size > region.reserved
                  /\ (size <= region.reserved
                      /\ last'.alignment = head.alignment) =>
                        /\ msgs' = <<>>
                        /\ ~aborted'
                        /\ last'.ret = region_payload(head)
                        /\ last.op = "region_aligned_reserve" =>
                              last'.ret = last.ret
                        /\ region'.used = region.used + size
                        /\ region'.reserved = 0
                        /\ Len(allocations') = Len(allocations)
                        /\ Head(allocations').used = head.used + size
                        /\ Head(allocations').hdr = head.hdr
                        /\ Head(allocations').size = head.size
                        /\ Tail(allocations') = Tail(allocations)
                        /\ blocks' = blocks
         ELSE ~aborted' =>
                /\ allocations' = <<Head(allocations')>> \o allocations
                /\ Head(allocations').size = last'.arg
                /\ Head(allocations').used = last'.arg
                /\ Head(allocations').alignment = last'.alignment
                /\ region'.used = region.used + last'.arg
                /\ region'.reserved = 0
                /\ \E b \in DOMAIN blocks' \ DOMAIN blocks :
                      /\ blocks'[b].header = Head(allocations').hdr
                      /\ blocks'[b].payload = last'.ret]_vars

\* an allocation of less than the reservation taken right after it, on top
\* of an earlier record
C29_Witness ==
    /\ last.op = "region_aligned_alloc"
    /\ ~aborted /\ msgs = <<>>
    /\ Len(allocations) = 2
    /\ Head(allocations).used < Head(allocations).size
    /\ Head(allocations).used > 0
    /\ region.used > Head(allocations).used
    /\ region.reserved = 0

(***************************************************************************)
(* Properties of lsregion_gc on ids in any order.                          *)
(***************************************************************************)
\* the length of the longest prefix of list whose ids are at most min_id
RECURSIVE GcPrefix(_, _)
GcPrefix(list, min_id) ==
    IF list = <<>> \/ Head(list).id > min_id THEN 0
    ELSE 1 + GcPrefix(Tail(list), min_id)

\* lsregion_gc(min_id) run on list with lsregion->used = used
GcOf(list, used, min_id) == gc_loop(list, min_id, used, {}, <<>>)

\* C30: whatever the order of the ids, lsregion_gc(min_id) frees the longest
\* prefix, from the oldest record on, of records with id <= min_id and stops
\* at the first record with id > min_id, so that every record behind it stays
\* live whatever its id; and lsregion_gc(b) after lsregion_gc(a), a <= b,
\* leaves the state lsregion_gc(b) alone leaves.
C30_GcPrefix ==
    [][last'.op = "lsregion_gc" =>
         LET k == GcPrefix(lsallocs, last'.arg)
         IN  /\ lsallocs' = SubSeq(lsallocs, k + 1, Len(lsallocs))
             /\ last'.freed = k
             /\ LiveHeaders' = ListHeaders(lsallocs')
             /\ lsregion'.used = SizeSum(lsallocs')
             /\ ~ub' /\ ~aborted' /\ msgs' = <<>>
             /\ \A b \in last'.arg..MaxId :
                   LET both == GcOf(lsallocs', lsregion'.used, b)
                       alone == GcOf(lsallocs, lsregion.used, b)
                   IN  /\ both.rest = alone.rest
                       /\ both.used = alone.used
                       /\ both.freed \cup (LiveHeaders \ LiveHeaders')
                              = alone.freed]_vars

\* a gc that freed the oldest record and stopped at a record above the
\* threshold, leaving behind it a record at or below the threshold
C30_Witness ==
    /\ last.op = "lsregion_gc"
    /\ last.freed >= 1
    /\ Len(lsallocs) = 2
    /\ lsallocs[1].id > last.arg
    /\ lsallocs[2].id <= last.arg

(***************************************************************************)
(* Properties of a pending reservation.                                    *)
(***************************************************************************)
REGION_RESERVED_CHECK == "region->reserved == 0"
OBUF_RESERVED_CHECK == "buf->reserved == 0"

\* C24: region_aligned_reserve with region.reserved # 0 and obuf_reserve
\* with buf.reserved # 0 fail small_assert(reserved == 0) before any block is
\* allocated, and a pending reservation is cleared only by the alloc that
\* consumes it or by truncate, rollback or reset.
C24_PendingReservation ==
    [][/\ (last'.op = "region_aligned_reserve" /\ region.reserved # 0) =>
             /\ msgs' # <<>>
             /\ Head(msgs') = REGION_RESERVED_CHECK
             /\ ~hook => /\ aborted'
                         /\ blocks' = blocks
                         /\ region' = region
                         /\ allocations' = allocations
       /\ (last'.op = "obuf_reserve" /\ obuf.reserved # 0) =>
             /\ msgs' # <<>>
             /\ Head(msgs') = OBUF_RESERVED_CHECK
             /\ ~hook => /\ aborted'
                         /\ blocks' = blocks
                         /\ obuf' = obuf
                         /\ iov' = iov
       /\ (region.reserved # 0 /\ region'.reserved = 0) =>
             \/ last'.op \in {"region_aligned_alloc", "region_truncate"}
             \/ /\ last'.op = "region_join"
                /\ REGION_RESERVED_CHECK \in Range(msgs')
       /\ (obuf.reserved # 0 /\ obuf'.reserved = 0) =>
             last'.op \in {"obuf_alloc", "obuf_rollback_to_svp",
                           "obuf_reset", "obuf_destroy"}]_vars

\* an obuf_reserve on an obuf with a reservation pending and a block
\* allocated, refused
C24_Witness ==
    /\ last.op = "obuf_reserve"
    /\ aborted
    /\ msgs = <<OBUF_RESERVED_CHECK>>
    /\ obuf.reserved # 0
    /\ Cardinality(DOMAIN blocks) = 1

(***************************************************************************)
(* Properties of the alignment of a mempool.                               *)
(***************************************************************************)
Pow2s == {2 ^ j : j \in 0..INT_BITS}

\* the largest power of two that divides n, n > 0
LargestPow2(n) ==
    CHOOSE d \in Pow2s :
        /\ n % d = 0
        /\ \A e \in Pow2s : n % e = 0 => e <= d

\* C26: mempool_create(objsize) sets pool->alignment to the largest power of
\* two that divides objsize, capped at MEMPOOL_ASAN_MAX_ALIGNMENT, for every
\* objsize of uint32_t but 0; it is a power of two between 1 and
\* MEMPOOL_ASAN_MAX_ALIGNMENT, and every payload of mempool_alloc is a
\* multiple of it and not of twice it.
C26_PoolAlignment ==
    pool.state = "created" =>
        /\ pool.alignment = Min(LargestPow2(pool.objsize),
                                MEMPOOL_ASAN_MAX_ALIGNMENT)
        /\ pool.alignment \in Pow2s
        /\ 1 <= pool.alignment
        /\ pool.alignment <= MEMPOOL_ASAN_MAX_ALIGNMENT
        /\ \A p \in user : Aligned(p, pool.alignment)

\* an object of a pool whose objsize is the sign bit of int alone, where the
\* shift overflows
C26_Witness ==
    /\ pool.state = "created"
    /\ pool.objsize = 2 ^ (INT_BITS - 1)
    /\ pool.alignment = MEMPOOL_ASAN_MAX_ALIGNMENT
    /\ last.op = "mempool_alloc"
    /\ ~aborted
    /\ user # {}

(***************************************************************************)
(* Properties of the vectors of the obuf.                                  *)
(***************************************************************************)
\* obuf_reserve, or obuf_alloc with no reservation pending, has returned
OpensVector(l) ==
    \/ l.op = "obuf_reserve"
    \/ l.op = "obuf_alloc" /\ ~l.reserved

\* the blocks of the heap whose payload is p
BlocksAt(p) == {b \in DOMAIN blocks : blocks[b].payload = p}

\* the vector i is backed by a block of small_wrapper_alloc with alignment 1
CheckedBacked(i) ==
    /\ Aligned(Vec(i).base, SMALL_OBUF_ALIGNMENT)
    /\ \E b \in BlocksAt(Vec(i).base) : blocks[b].header # NULL

\* the vector i is backed by a block taken from malloc() as it is
GeometricBacked(i) ==
    \E b \in BlocksAt(Vec(i).base) : blocks[b].header = NULL /\ b = Vec(i).base

\* the vectors in use are backed as their index asks, each by its own block
VectorsBacked ==
    /\ \A i \in 0..obuf.pos :
          Vec(i).base # NULL =>
              IF i < SMALL_OBUF_IOV_CHECKED_SIZE THEN CheckedBacked(i)
              ELSE GeometricBacked(i)
    /\ \A i, j \in 0..obuf.pos :
          (i # j /\ Vec(i).base # NULL) => Vec(i).base # Vec(j).base
    /\ \A i \in 0..(obuf.pos - 1) : Vec(i).base # NULL

\* C31: each of the first SMALL_OBUF_IOV_CHECKED_SIZE vectors is backed by
\* its own small_wrapper block of alignment 1 and holds one reservation or
\* allocation: while the current vector is a checked one, every obuf_reserve
\* and every obuf_alloc without reservation opens a new vector (vector 0 on
\* an empty buffer, no vector below pos left NULL), and blocks taken from
\* malloc() as they are back the vectors from SMALL_OBUF_IOV_CHECKED_SIZE on
\* only.
C31_CheckedVectors ==
    [][(obuf.state = "created" /\ ~aborted') =>
         /\ VectorsBacked'
         /\ (OpensVector(last') /\ obuf.pos < SMALL_OBUF_IOV_CHECKED_SIZE) =>
               LET n == IF Vec(obuf.pos).base = NULL THEN obuf.pos
                        ELSE obuf.pos + 1
               IN  /\ obuf'.pos = n
                   /\ Vec(n).base = NULL
                   /\ iov'[n + 1].base = last'.ret
                   /\ iov'[n + 1].base # NULL
                   /\ Cardinality(DOMAIN blocks' \ DOMAIN blocks) = 1
                   /\ DOMAIN blocks \subseteq DOMAIN blocks'
                   /\ \A i \in 1..n : iov'[i] = iov[i]]_vars

\* an allocation has opened the last checked vector on top of vector 0
C31_Witness ==
    /\ last.op = "obuf_alloc"
    /\ ~last.reserved
    /\ ~aborted
    /\ obuf.pos = SMALL_OBUF_IOV_CHECKED_SIZE - 1
    /\ obuf.pos > 0
    /\ \A i \in 0..obuf.pos : Vec(i).len > 0 /\ CheckedBacked(i)

\* the bytes a call asks obuf_prepare_buf for: obuf_reserve rounds up to a
\* page
Requested(l) == IF l.op = "obuf_reserve" THEN Max(l.arg, PageSize) ELSE l.arg

\* the smallest start_capacity * 2^j, j >= k, that is at least size
LeastCapacity(start_capacity, k, size) ==
    LET caps == {start_capacity * 2 ^ j : j \in k..(k + INT_BITS)}
    IN  CHOOSE c \in caps : c >= size /\ \A d \in caps : d >= size => c <= d

\* C32: when obuf_prepare_buf opens the geometric vector k (index
\* SMALL_OBUF_IOV_CHECKED_SIZE + k) for size bytes, the capacity recorded for
\* it is the smallest start_capacity * 2^j, j >= k, that is at least size; a
\* later request (a page at least for obuf_reserve) is served from the
\* current geometric vector if and only if iov_len + size <= its capacity,
\* and otherwise the next vector is opened.
C32_GeometricCapacity ==
    [][(/\ OpensVector(last')
        /\ ~aborted'
        /\ obuf.pos >= SMALL_OBUF_IOV_CHECKED_SIZE - 1) =>
         LET size == Requested(last')
             gpos == obuf.pos - SMALL_OBUF_IOV_CHECKED_SIZE
             fits == gpos >= 0 /\ Vec(obuf.pos).len + size <= Cap(gpos)
             len == IF last'.op = "obuf_reserve" THEN 0 ELSE size
         IN  IF fits
             THEN /\ obuf'.pos = obuf.pos
                  /\ last'.ret = Vec(obuf.pos).base + Vec(obuf.pos).len
                  /\ iov'[obuf.pos + 1] =
                        [Vec(obuf.pos) EXCEPT !.len = @ + len]
                  /\ capacity' = capacity
                  /\ blocks' = blocks
             ELSE /\ obuf'.pos = obuf.pos + 1
                  /\ capacity'[gpos + 2] =
                        LeastCapacity(obuf.start_capacity, gpos + 1, size)
                  /\ iov'[obuf.pos + 2] = [base |-> last'.ret, len |-> len]
                  /\ last'.ret \in DOMAIN blocks' \ DOMAIN blocks]_vars

\* the second geometric vector opened for a request that did not fit the
\* first, whose capacity the loop had doubled
C32_Witness ==
    /\ OpensVector(last)
    /\ ~aborted
    /\ obuf.pos = SMALL_OBUF_IOV_CHECKED_SIZE + 1
    /\ obuf.start_capacity = 1
    /\ Cap(0) = 2
    /\ Cap(1) = 2
    /\ Vec(obuf.pos - 1).len < Cap(0)
    /\ Vec(obuf.pos).len = 0

(***************************************************************************)
(* Properties of small_alloc_destroy.                                      *)
(***************************************************************************)
\* C33: small_alloc_destroy ends the lease of every live object, giving the
\* quota back the sum of the sizes stored in them, so that the instance
\* holds no leased bytes afterwards; it releases each live block once and
\* leaves the list empty.
C33_DestroyEndsLeases ==
    [][last'.op = "small_alloc_destroy" =>
         /\ quota'.leased = quota.leased - Outstanding(sobjects)
         /\ quota'.total = quota.total
         /\ ~Crossed => quota'.leased = (IF alloc2.state = "created"
                                         THEN alloc2.used ELSE 0)
         /\ sobjects' = <<>>
         /\ DOMAIN blocks' = DOMAIN blocks \ BlocksOf(sobjects)
         /\ Cardinality(BlocksOf(sobjects)) = Len(sobjects)
         /\ LiveHeaders' = ListHeaders(objects2)
         /\ ~ub' /\ ~aborted' /\ msgs' = <<>>
         /\ alloc2' = alloc2 /\ objects2' = objects2]_vars

\* a small_alloc destroyed with two objects live, next to a second one that
\* keeps its object and its lease
C33_Witness ==
    /\ last.op = "small_alloc_destroy"
    /\ last.arg = 2
    /\ sobjects = <<>>
    /\ Len(objects2) = 1
    /\ quota.leased = alloc2.used
    /\ quota.leased > 0
    /\ Cardinality(DOMAIN blocks) = 1

(***************************************************************************)
(* Invariants of the region.                                               *)
(***************************************************************************)
\* region->used is the sum of alloc->used over the list and no record holds
\* more than its block
RegionConsistent ==
    /\ region.used = UsedSum(allocations, Len(allocations))
    /\ \A i \in 1..Len(allocations) : allocations[i].used <= allocations[i].size

\* C34: while no assertion has failed region.used is the sum of the used
\* fields of the records of the list and every record has used <= size;
\* region_join(size) puts one record of size bytes in front of the list,
\* raises region.used by size and removes no record.
C34_RegionUsed ==
    /\ [](Sane => RegionConsistent)
    /\ [][(last'.op = "region_join" /\ Sane') =>
            /\ Tail(allocations') = allocations
            /\ Head(allocations').used = last'.arg
            /\ region'.used = region.used + last'.arg
            /\ DOMAIN blocks \subseteq DOMAIN blocks']_vars

\* a region_join of the bytes of a record that uses a part of its block
\* leaves that record behind the new one
C34_Witness ==
    /\ Sane
    /\ last.op = "region_join"
    /\ Len(allocations) = 2
    /\ last.arg > 0
    /\ region.used = 2 * last.arg
    /\ allocations[2].used < allocations[2].size
    /\ allocations[2].used = last.arg

\* the step is a region_aligned_reserve of which no assertion failed
Reserved(l) == l.op = "region_aligned_reserve" /\ Sane'

\* C35: while no assertion has failed, region.reserved # 0 implies that the
\* head record of the list has used = 0 and size = region.reserved;
\* region_aligned_reserve(size) sets reserved to max(size, pagesize) and
\* leaves region.used as it was; region_truncate leaves reserved = 0 and,
\* when a reservation was pending, its block freed.
C35_Reservation ==
    /\ [](Sane /\ region.reserved # 0 =>
            /\ allocations # <<>>
            /\ Head(allocations).used = 0
            /\ Head(allocations).size = region.reserved)
    /\ [][Reserved(last') =>
            /\ region'.reserved =
                   (IF last'.arg > PageSize THEN last'.arg ELSE PageSize)
            /\ region'.used = region.used
            /\ Tail(allocations') = allocations]_vars
    /\ [][(last'.op = "region_truncate" /\ ~aborted') =>
            /\ region'.reserved = 0
            /\ region.reserved # 0 =>
                  /\ Head(allocations).hdr \notin LiveHeaders'
                  /\ last'.freed >= 1
                  /\ allocations' # <<>> => Head(allocations') # Head(allocations)]_vars

\* a reservation of more than a page, pending
C35_Witness ==
    /\ Sane
    /\ last.op = "region_aligned_reserve"
    /\ last.arg > PageSize
    /\ region.reserved = last.arg
    /\ region.used > 0

\* a region_truncate to region_used() has freed the block of a pending
\* reservation and left the records below it
C35_TruncateWitness ==
    /\ Sane
    /\ last.op = "region_truncate"
    /\ last.freed = 1
    /\ last.arg = region.used
    /\ region.used > 0
    /\ region.reserved = 0

(***************************************************************************)
(* Invariants of the obuf.                                                 *)
(***************************************************************************)
\* the sum of iov_len over the vectors 0..n
RECURSIVE IovLenSum(_)
IovLenSum(n) == IF n < 0 THEN 0 ELSE Vec(n).len + IovLenSum(n - 1)

\* the buffer holds nothing and has no vector
ObufEmpty ==
    /\ obuf.pos = 0
    /\ obuf.used = 0
    /\ \A i \in 0..SMALL_OBUF_IOV_MAX : Vec(i) = NoVec

\* C36: while no assertion has failed obuf_size(buf) is the sum of iov_len
\* over the vectors 0..pos, every vector above pos is (NULL, 0), and every
\* vector at or below pos has a base unless the buffer is empty.
C36_ObufSize ==
    (obuf.state = "created" /\ Sane) =>
        /\ obuf.pos \in 0..(SMALL_OBUF_IOV_MAX - 1)
        /\ obuf.used = IovLenSum(obuf.pos)
        /\ \A i \in (obuf.pos + 1)..SMALL_OBUF_IOV_MAX : Vec(i) = NoVec
        /\ (\E i \in 0..obuf.pos : Vec(i).base = NULL) => ObufEmpty

\* after a rollback to a savepoint inside a geometric vector that had taken
\* two allocations, the buffer holds the bytes of three vectors
C36_Witness ==
    /\ obuf.state = "created" /\ Sane
    /\ last.op = "obuf_rollback_to_svp"
    /\ last.pos > obuf.pos
    /\ obuf.pos = SMALL_OBUF_IOV_CHECKED_SIZE
    /\ Vec(obuf.pos).len >= 1
    /\ obuf.used = IovLenSum(obuf.pos)
    /\ obuf.used > Vec(obuf.pos).len + Vec(0).len

\* the vector i is geometric and in use
Geometric(i) == i \in SMALL_OBUF_IOV_CHECKED_SIZE..obuf.pos

\* C38: while no assertion has failed every geometric vector in use holds at
\* most the bytes of its block, a pending reservation included, and the
\* vectors in use have their capacities inside buf->capacity.
C38_WithinCapacity ==
    (obuf.state = "created" /\ Sane) =>
        \A i \in 0..SMALL_OBUF_IOV_MAX :
            Geometric(i) =>
                /\ i - SMALL_OBUF_IOV_CHECKED_SIZE
                       \in 0..(SMALL_OBUF_IOV_GEOMETRIC_SIZE - 2)
                /\ Vec(i).base \in DOMAIN blocks
                /\ Vec(i).len <= Cap(i - SMALL_OBUF_IOV_CHECKED_SIZE)
                /\ i = obuf.pos =>
                       Vec(i).len + obuf.reserved
                           <= Cap(i - SMALL_OBUF_IOV_CHECKED_SIZE)

\* a reservation pending in the last geometric vector behind an allocation
\* made there, the two filling the block
C38_Witness ==
    /\ obuf.state = "created" /\ Sane
    /\ obuf.pos = SMALL_OBUF_IOV_MAX - 1
    /\ obuf.reserved # 0
    /\ Vec(obuf.pos).len >= 1
    /\ Vec(obuf.pos).len + obuf.reserved
           = Cap(obuf.pos - SMALL_OBUF_IOV_CHECKED_SIZE)

(***************************************************************************)
(* Invariants of the mempool.                                              *)
(***************************************************************************)
\* C37 as stated: in every state of a pool, mempool_destroy included,
\* pool->objcount is the number of records in pool->objects, so that
\* mempool_count and mempool_used describe the live objects.
C37_CountMatchesList ==
    pool.state \in {"created", "destroyed"} =>
        /\ mempool_count(pool) = Len(objects)
        /\ mempool_used(pool) = pool.objsize * Len(objects)

(***************************************************************************)
(* Termination of obuf_prepare_buf.                                        *)
(***************************************************************************)
\* C39 as stated: every call of obuf_reserve and obuf_alloc returns: the
\* loop that doubles the capacity of a new geometric vector ends, for every
\* start_capacity that obuf_create takes, every geometric vector and every
\* size >= 1.
C39_LoopTerminates == (grow.pc = "test") ~> (grow.pc = "done")

\* the loop ends, at the capacity of GrowCapacity, when start_capacity is
\* not 0 and size is at most half the range of size_t
C39_LoopEndsInRange ==
    /\ (grow.pc = "test" /\ grow.start_capacity > 0
            /\ grow.size <= SIZE_MOD \div 2) ~> (grow.pc = "done")
    /\ [](grow.pc = "done" =>
             /\ grow.capacity >= grow.size
             /\ grow.capacity =
                    GrowCapacity(first_capacity(grow.start_capacity, grow.gpos),
                                 grow.size))

====
